---- MODULE Spec2Model ----
(***************************************************************************)
(* A model of the procedural narrative-assembly engine of                  *)
(* fiction-novel-generator (local_generator.py): the beat planner          *)
(* _assign_beats, the chapter padder _pad_chapter and the generation       *)
(* pipeline of LocalNovelGenerator.                                        *)
(*                                                                         *)
(* Text is a sequence of tokens: "sp" and "nl" are a space and a line      *)
(* break, every other token is a run of non-whitespace characters.  Two    *)
(* such runs with no whitespace token between them form one word, as for   *)
(* str.split().  A template paragraph is rendered as a few tokens naming   *)
(* the template and the values interpolated into it.                       *)
(*                                                                         *)
(* random.Random is a deterministic generator: its state after seeding is  *)
(* a function of the seed, and every draw advances it.  The model keeps a  *)
(* small state (x, step); a draw below n returns x % n and adds step to x. *)
(* step = 0 gives the degenerate stream that repeats one value.            *)
(***************************************************************************)
EXTENDS Integers, Sequences, FiniteSets, TLC

VARIABLES
    \* _assign_beats called on its own: argument, position, locals
    beat_n,         \* n
    beat_pc,        \* "idle" | "start" | "select" | "insert" | "done"
    beat_i,         \* the loop variable i of either for loop
    indices,        \* the list indices (0-based values, as in the code)
    beat_result,    \* the returned list (result)
    \* _pad_chapter called on its own: position and locals
    pad_pc,         \* "idle" | "start" | "loop" | "done"
    pad,            \* text, target_words, pool, extra_paragraphs, ...
    \* build_characters called on its own: position and locals
    roster_pc,      \* "idle" | "start" | "name" | "named" | "picks" | "count" | "done"
    roster,         \* bank, rng, chars, used, role, left, name, attempt, ...
    \* _extract_from_research called on its own: position and locals
    extract_pc,     \* "idle" | "scan" | "done"
    extract,        \* idea, the four buckets, what has been read, the result
    \* _compile called on its own: position, arguments and outcome
    compile_pc,     \* "idle" | "start" | "done" | "raised"
    compile_st,     \* characters, themes, chapters, the document or the error
    \* detect_chapters called on its own: position, argument and locals
    nav_pc,         \* "idle" | "scan" | "sort" | "done"
    nav,            \* text, the matches found, the returned list
    \* NovelEngine._generate called on its own: position and locals
    api_pc,         \* "idle" | "start" | "call" | "sleep" | "returned" | "raised"
    api,            \* key, attempt, calls made, pauses taken, the outcome
    \* one LocalNovelGenerator and its generate_all call
    idea, genre, research, num_chapters, seed,   \* constructor arguments
    hash_salt,      \* the process's string-hash randomisation
    rng,            \* self._rng
    status_callback,\* whether generate_all was given one
    chapter_writer, \* "none", or the external writer given
    pc,             \* position in generate_all
    characters, world, plot, outlines, chapter_texts,   \* its locals
    status_log,     \* the messages the callback has received, in order
    writer_log,     \* the calls the chapter_writer has received, in order
    returned,       \* the mapping generate_all returned, or NoResult
    prev            \* the inputs and artefacts of the run before this one

beat_vars == <<beat_n, beat_pc, beat_i, indices, beat_result>>

pad_vars == <<pad_pc, pad>>

roster_vars == <<roster_pc, roster>>

extract_vars == <<extract_pc, extract>>

compile_vars == <<compile_pc, compile_st>>

nav_vars == <<nav_pc, nav>>

api_vars == <<api_pc, api>>

\* the functions called on their own beside the generator's
side_vars == <<compile_vars, nav_vars, api_vars>>

gen_vars == <<idea, genre, research, num_chapters, seed, hash_salt, rng,
              status_callback, chapter_writer, pc, characters, world, plot,
              outlines, chapter_texts, status_log, writer_log, returned, prev>>

\* everything _assign_beats does not touch
beat_frame == <<pad_vars, roster_vars, extract_vars, gen_vars, side_vars>>

\* everything _pad_chapter does not touch
pad_frame == <<beat_vars, roster_vars, extract_vars, gen_vars, side_vars>>

\* everything build_characters does not touch
roster_frame == <<beat_vars, pad_vars, extract_vars, gen_vars, side_vars>>

\* everything _extract_from_research does not touch
extract_frame == <<beat_vars, pad_vars, roster_vars, gen_vars, side_vars>>

\* everything generate_all does not touch
gen_frame == <<beat_vars, pad_vars, roster_vars, extract_vars, side_vars>>

\* everything _compile, detect_chapters and _generate do not touch
compile_frame == <<beat_vars, pad_vars, roster_vars, extract_vars, gen_vars,
                   nav_vars, api_vars>>

nav_frame == <<beat_vars, pad_vars, roster_vars, extract_vars, gen_vars,
               compile_vars, api_vars>>

api_frame == <<beat_vars, pad_vars, roster_vars, extract_vars, gen_vars,
               compile_vars, nav_vars>>

vars == <<beat_vars, pad_vars, roster_vars, extract_vars, gen_vars, side_vars>>

-----------------------------------------------------------------------------
(* Bounds of the model.                                                    *)

\* the largest chapter count handed to _assign_beats on its own
MaxChapters == 18

\* the generator state x ranges over 0..RngMod-1
RngMod == 6

\* explicit seeds are 0..MaxSeed
MaxSeed == 11

\* the largest target_words handed to _pad_chapter on its own
MaxTarget == 64

\* the largest num_chapters of a generation run
MaxGenChapters == 3

\* target_words of generate_all's _pad_chapter calls, on the scale of the
\* model's paragraphs (the code's default is 3500 for chapters of about
\* 1900 words)
PipelineTarget == 40

-----------------------------------------------------------------------------
(* Statement sequencing: a local variable is computed once by its          *)
(* assignment and read by the statements after it; Bind(v, F) is F(v) with *)
(* v evaluated first.                                                      *)

Bind(v, F(_)) == CHOOSE y \in {F(w) : w \in {v}} : TRUE

-----------------------------------------------------------------------------
(* random.Random                                                           *)

\* random.Random(seed)
SeedRng(s) == [x |-> s % RngMod, step |-> (s \div RngMod) % RngMod]

\* the states a generator can be in
RngStates == [x : 0..(RngMod - 1), step : 0..(RngMod - 1)]

\* one draw of a number below n
RandBelow(r, n) == r.x % n

Advance(r) == [r EXCEPT !.x = (r.x + r.step) % RngMod]

\* rng.choice(lst): the element and the generator after the draw
Choice(r, lst) == [val |-> lst[RandBelow(r, Len(lst)) + 1], rng |-> Advance(r)]

\* rng.randint(a, b)
RandInt(r, a, b) == [val |-> a + RandBelow(r, b - a + 1), rng |-> Advance(r)]

\* rng.sample(population, k), CPython's pool algorithm: the pick at j is
\* replaced by the last unpicked element
RECURSIVE SampleLoop(_, _, _, _, _)
SampleLoop(r, poolv, k, i, acc) ==
    IF i >= k THEN [val |-> acc, rng |-> r]
    ELSE Bind(Len(poolv), LAMBDA n :
         Bind(RandBelow(r, n - i), LAMBDA j :
         Bind([poolv EXCEPT ![j + 1] = poolv[n - i]], LAMBDA moved :
         Bind(Append(acc, poolv[j + 1]), LAMBDA picked :
         Bind(Advance(r), LAMBDA next :
             SampleLoop(next, moved, k, i + 1, picked))))))

SampleRepeating(r, population, k) ==
    [val |-> [i \in 1..k |-> population[RandBelow(r, Len(population)) + 1]],
     rng |-> Advance(r)]

Sample(r, population, k) == SampleLoop(r, population, k, 0, <<>>)

\* rng.shuffle(x): for i in reversed(range(1, len(x))): swap x[i], x[j]
RECURSIVE ShuffleLoop(_, _, _)
ShuffleLoop(r, x, i) ==
    IF i < 1 THEN [val |-> x, rng |-> r]
    ELSE Bind(RandBelow(r, i + 1), LAMBDA j :
         Bind([x EXCEPT ![i + 1] = x[j + 1], ![j + 1] = x[i + 1]], LAMBDA swapped :
         Bind(Advance(r), LAMBDA next :
             ShuffleLoop(next, swapped, i - 1))))

Shuffle(r, x) == ShuffleLoop(r, x, Len(x) - 1)

-----------------------------------------------------------------------------
(* Text                                                                    *)

IsSpace(tok) == tok \in {"sp", "nl"}

\* len(text.split()): the number of maximal runs of non-whitespace tokens
RECURSIVE WordCountFrom(_, _, _)
WordCountFrom(text, k, inword) ==
    IF k > Len(text) THEN 0
    ELSE IF IsSpace(text[k]) THEN WordCountFrom(text, k + 1, FALSE)
    ELSE (IF inword THEN 0 ELSE 1) + WordCountFrom(text, k + 1, TRUE)

WordCount(text) == WordCountFrom(text, 1, FALSE)

\* text.split()[0]: the tokens of the first word (the texts it is applied
\* to, character names, have one)
RECURSIVE FirstWordFrom(_, _)
FirstWordFrom(text, k) ==
    IF k > Len(text) THEN <<>>
    ELSE IF IsSpace(text[k]) THEN <<>>
    ELSE <<text[k]>> \o FirstWordFrom(text, k + 1)

RECURSIVE SkipSpace(_, _)
SkipSpace(text, k) ==
    IF k <= Len(text) /\ IsSpace(text[k]) THEN SkipSpace(text, k + 1) ELSE k

FirstWord(text) == FirstWordFrom(text, SkipSpace(text, 1))

\* sep.join(parts)
RECURSIVE Join(_, _)
Join(sep, parts) ==
    IF parts = <<>> THEN <<>>
    ELSE IF Len(parts) = 1 THEN parts[1]
    ELSE parts[1] \o sep \o Join(sep, Tail(parts))

\* "\n\n"
NoGap == <<>>

ParagraphGap == <<"nl", "nl">>

\* the words w1 .. wn separated by single spaces
Words(ws) == Join(<<"sp">>, [k \in 1..Len(ws) |-> <<ws[k]>>])

-----------------------------------------------------------------------------
(* Story beat assignment: _BEAT_SEQUENCE and _assign_beats.                *)

_BEAT_SEQUENCE ==
    << "exposition", "inciting_incident", "rising_action", "complications",
       "midpoint", "complications", "darkest_moment", "climax_buildup",
       "climax", "resolution" >>

\* Python's round(num / den) for integers num >= 0, den > 0: the nearest
\* integer, an exact half going to the even neighbour.
RoundHalfUp(num, den) ==
    (2 * num + den) \div (2 * den)

round(num, den) ==
    LET q == num \div den
        r == num % den
    IN  IF 2 * r < den THEN q
        ELSE IF 2 * r > den THEN q + 1
        ELSE IF q % 2 = 0 THEN q ELSE q + 1

\* len(_BEAT_SEQUENCE) - 1, the index of the last canonical beat
LastIndexShort == Len(_BEAT_SEQUENCE) - 2

LastIndex == Len(_BEAT_SEQUENCE) - 1

\* round(i * (len(_BEAT_SEQUENCE) - 1) / (n - 1))
SpacedIndexOverN(i, n) == round(i * LastIndex, n)

SpacedIndexHalfUp(i, n) == RoundHalfUp(i * LastIndex, n - 1)

SpacedIndex(i, n) == round(i * LastIndex, n - 1)

\* extra = n - len(_BEAT_SEQUENCE)
BeatExtraOneMore(n) == n - Len(_BEAT_SEQUENCE) + 1

BeatExtra(n) == n - Len(_BEAT_SEQUENCE)

\* insert_pos = len(result) - 3
InsertPosAfterBuildup(res) == Len(res) - 2

InsertPosFixed(res) == Len(_BEAT_SEQUENCE) - 3

InsertPos(res) == Len(res) - 3

\* "rising_action" if i % 2 == 0 else "complications"
ExtraBeatFalling(i) == IF i % 2 = 0 THEN "rising_action" ELSE "falling_action"

ExtraBeat(i) == IF i % 2 = 0 THEN "rising_action" ELSE "complications"

\* list.insert(pos, x) for 0 <= pos <= len(list)
ListInsert(lst, pos, x) ==
    SubSeq(lst, 1, pos) \o <<x>> \o SubSeq(lst, pos + 1, Len(lst))

\* the list returned for a single chapter
SingleChapterCanonical == <<"exposition">>

SingleChapterBeats == <<"full_arc">>

\* if n == 1: return ["full_arc"]
BeatsOne ==
    /\ beat_pc = "start"
    /\ beat_n = 1
    /\ beat_result' = SingleChapterBeats
    /\ beat_pc' = "done"
    /\ UNCHANGED <<beat_n, beat_i, indices>>
    /\ UNCHANGED beat_frame

\* if n == 2: return ["exposition", "resolution"]
BeatsTwo ==
    /\ beat_pc = "start"
    /\ beat_n = 2
    /\ beat_result' = <<"exposition", "resolution">>
    /\ beat_pc' = "done"
    /\ UNCHANGED <<beat_n, beat_i, indices>>
    /\ UNCHANGED beat_frame

\* if n <= len(_BEAT_SEQUENCE): indices = [0]; the loop starts at i = 1
BeatsSelectBegin ==
    /\ beat_pc = "start"
    /\ beat_n # 1 /\ beat_n # 2
    /\ beat_n <= Len(_BEAT_SEQUENCE)
    /\ indices' = <<0>>
    /\ beat_i' = 1
    /\ beat_pc' = "select"
    /\ UNCHANGED <<beat_n, beat_result>>
    /\ UNCHANGED beat_frame

\* for i in range(1, n - 1): indices.append(round(...))
BeatsSelectStep ==
    /\ beat_pc = "select"
    /\ beat_i < beat_n - 1
    /\ indices' = Append(indices, SpacedIndex(beat_i, beat_n))
    /\ beat_i' = beat_i + 1
    /\ UNCHANGED <<beat_n, beat_pc, beat_result>>
    /\ UNCHANGED beat_frame

\* indices.append(len - 1); return [_BEAT_SEQUENCE[i] for i in indices]
BeatsSelectEnd ==
    /\ beat_pc = "select"
    /\ ~(beat_i < beat_n - 1)
    /\ LET all == Append(indices, LastIndex)
       IN  /\ indices' = all
           /\ beat_result' = [k \in 1..Len(all) |-> _BEAT_SEQUENCE[all[k] + 1]]
    /\ beat_pc' = "done"
    /\ UNCHANGED <<beat_n, beat_i>>
    /\ UNCHANGED beat_frame

\* result = list(_BEAT_SEQUENCE); extra = n - len(...); the loop starts at 0
BeatsInsertBegin ==
    /\ beat_pc = "start"
    /\ beat_n > Len(_BEAT_SEQUENCE)
    /\ beat_result' = _BEAT_SEQUENCE
    /\ beat_i' = 0
    /\ beat_pc' = "insert"
    /\ UNCHANGED <<beat_n, indices>>
    /\ UNCHANGED beat_frame

\* for i in range(extra): result.insert(len(result) - 3, <extra beat>)
BeatsInsertStep ==
    /\ beat_pc = "insert"
    /\ beat_i < BeatExtra(beat_n)
    /\ beat_result' = ListInsert(beat_result, InsertPos(beat_result),
                                 ExtraBeat(beat_i))
    /\ beat_i' = beat_i + 1
    /\ UNCHANGED <<beat_n, beat_pc, indices>>
    /\ UNCHANGED beat_frame

\* return result
BeatsInsertEnd ==
    /\ beat_pc = "insert"
    /\ ~(beat_i < BeatExtra(beat_n))
    /\ beat_pc' = "done"
    /\ UNCHANGED <<beat_n, beat_i, indices, beat_result>>
    /\ UNCHANGED beat_frame

\* len(range(a, b))
RangeLen(a, b) == IF b > a THEN b - a ELSE 0

\* _assign_beats(n) as one evaluation: the same branches and loop bodies
RECURSIVE InsertLoop(_, _, _)
InsertLoop(res, i, extra) ==
    IF i < extra
    THEN InsertLoop(ListInsert(res, InsertPos(res), ExtraBeat(i)), i + 1, extra)
    ELSE res

AssignBeats(n) ==
    IF n = 1 THEN SingleChapterBeats
    ELSE IF n = 2 THEN <<"exposition", "resolution">>
    ELSE IF n <= Len(_BEAT_SEQUENCE)
    THEN LET inner == [i \in 1..RangeLen(1, n - 1) |-> SpacedIndex(i, n)]
             all == <<0>> \o inner \o <<LastIndex>>
         IN  [k \in 1..Len(all) |-> _BEAT_SEQUENCE[all[k] + 1]]
    ELSE InsertLoop(_BEAT_SEQUENCE, 0, BeatExtra(n))

-----------------------------------------------------------------------------
(* The static tables: _GENRE_DATA, _NAME_BANKS and the character pools.    *)
(* Three of the ten genre tables are kept (Fantasy has a name bank, Horror *)
(* has none, General is the fallback); each list has the length it has in  *)
(* the code, its entries named by position.                                *)

Items(prefix, n) == [k \in 1..n |-> prefix \o ToString(k)]

GenreTable(tag, period) ==
    [ atmosphere        |-> Items(tag \o "_atmosphere", 5),
      locations         |-> Items(tag \o "_location", 10),
      power_words       |-> Items(tag \o "_power", 6),
      conflict_elements |-> Items(tag \o "_conflict", 6),
      world_rules       |-> Items(tag \o "_rule", 3),
      themes            |-> Items(tag \o "_theme", 3),
      time_period       |-> period ]

_GENRE_DATA ==
    [ Fantasy |-> GenreTable("Fantasy",
                     "an age of waning magic and rising kingdoms"),
      Horror  |-> GenreTable("Horror",
                     "the present, in a place that holds something old and unresolved"),
      General |-> GenreTable("General",
                     "the present, in a world recognisably like our own") ]

_NAME_BANKS ==
    [ Fantasy |-> [first |-> Items("FantasyFirst", 20),
                   last  |-> Items("FantasyLast", 10)],
      default |-> [first |-> Items("DefaultFirst", 20),
                   last  |-> Items("DefaultLast", 10)] ]

_TRAIT_FLAW_PAIRS == [k \in 1..12 |-> <<"trait" \o ToString(k), "flaw" \o ToString(k)>>]

_BACKSTORIES == Items("backstory", 10)

_MOTIVATIONS == Items("motivation", 10)

_INTERNAL_CONFLICTS == Items("internal_conflict", 8)

\* _GENRE_DATA.get(genre, _GENRE_DATA["General"])
GenreData(g) ==
    IF g \in DOMAIN _GENRE_DATA THEN _GENRE_DATA[g] ELSE _GENRE_DATA["General"]

\* _NAME_BANKS.get(genre, _NAME_BANKS["default"])
NameBankTied(g) ==
    IF g \in DOMAIN _NAME_BANKS THEN _NAME_BANKS[g]
    ELSE IF g \in DOMAIN _GENRE_DATA THEN _NAME_BANKS["Fantasy"]
    ELSE _NAME_BANKS["default"]

NameBank(g) ==
    IF g \in DOMAIN _NAME_BANKS THEN _NAME_BANKS[g] ELSE _NAME_BANKS["default"]

-----------------------------------------------------------------------------
(* Character building: _make_character and build_characters.               *)

\* for _ in range(30)
NameAttempts == 30

\* f"{fn} {ln}"
FullName(fn, ln) == <<fn, "sp", ln>>

\* f"{self._pick(first_names)} {self._pick(last_names)}": two draws
NamePick(r, bank) ==
    Bind(Choice(r, bank.first), LAMBDA fn :
    Bind(Choice(fn.rng, bank.last), LAMBDA ln :
        [val |-> FullName(fn.val, ln.val), rng |-> ln.rng]))

\* if candidate not in used_names
NameFreeAlways(candidate, used) == TRUE

NameFree(candidate, used) == candidate \notin used

\* the collision-avoidance loop: name stays "" when every attempt collides
RECURSIVE NameLoop(_, _, _, _)
NameLoop(r, bank, used, attempt) ==
    IF attempt >= NameAttempts THEN [val |-> <<>>, rng |-> r]
    ELSE Bind(NamePick(r, bank), LAMBDA candidate :
             IF NameFree(candidate.val, used) THEN candidate
             ELSE NameLoop(candidate.rng, bank, used, attempt + 1))

\* if not name: name = f"{self._pick(first_names)} {self._pick(last_names)}"
DrawName(r, bank, used) ==
    Bind(NameLoop(r, bank, used, 0), LAMBDA tried :
        IF tried.val = <<>> THEN NamePick(tried.rng, bank) ELSE tried)

\* the role-specific arc text: the template and the fields it interpolates
ArcText(role, name, backstory, motivation, internal) ==
    IF role = "protagonist"
    THEN <<"protagonist_arc", name, backstory, motivation, internal>>
    ELSE IF role = "antagonist"
    THEN <<"antagonist_arc", name, motivation>>
    ELSE <<"other_arc", name, role, motivation>>

\* the four draws after the name and the Character they fill
CharacterPicks(r, role, name) ==
    Bind(Choice(r, _TRAIT_FLAW_PAIRS), LAMBDA tf :
    Bind(Choice(tf.rng, _BACKSTORIES), LAMBDA bs :
    Bind(Choice(bs.rng, _MOTIVATIONS), LAMBDA mo :
    Bind(Choice(mo.rng, _INTERNAL_CONFLICTS), LAMBDA ic :
        [ val |-> [ name |-> name, role |-> role,
                    trait |-> tf.val[1], flaw |-> tf.val[2],
                    backstory |-> bs.val, motivation |-> mo.val,
                    internal_conflict |-> ic.val,
                    arc |-> ArcText(role, name, bs.val, mo.val, ic.val) ],
          rng |-> ic.rng ]))))

\* _make_character(role, used_names): the character, the names used after
\* it, and the generator after its draws
_make_character(r, bank, role, used_names) ==
    Bind(DrawName(r, bank, used_names), LAMBDA nm :
    Bind(CharacterPicks(nm.rng, role, nm.val), LAMBDA c :
        [ val  |-> c.val,
          used |-> used_names \cup {nm.val},
          rng  |-> c.rng ]))

\* for _ in range(count): chars.append(self._make_character("supporting", used))
RECURSIVE SupportingLoop(_, _, _, _, _)
SupportingLoop(r, bank, chars, used, left) ==
    IF left <= 0 THEN [val |-> chars, rng |-> r]
    ELSE Bind(_make_character(r, bank, "supporting", used), LAMBDA c :
             SupportingLoop(c.rng, bank, Append(chars, c.val), c.used, left - 1))

\* self._rng.randint(2, 3)
SupportingCountWide(r) == RandInt(r, 1, 3)

SupportingCount(r) == RandInt(r, 2, 3)

build_characters(r, bank) ==
    Bind(_make_character(r, bank, "protagonist", {}), LAMBDA pro :
    Bind(_make_character(pro.rng, bank, "antagonist", pro.used), LAMBDA ant :
    Bind(SupportingCount(ant.rng), LAMBDA cnt :
        SupportingLoop(cnt.rng, bank, <<pro.val, ant.val>>, ant.used, cnt.val))))

\* build_characters called on its own, one name attempt per step.  Beside
\* the locals, every finished character leaves a record of its naming: the
\* names used before it, the candidates drawn in the loop, and whether the
\* draw after the loop was made.

\* used = set(); chars = []; the first _make_character call is entered
RosterBegin ==
    /\ roster_pc = "start"
    /\ roster' = [ bank |-> roster.bank, rng0 |-> roster.rng, rng |-> roster.rng,
                   chars |-> <<>>, used |-> {}, role |-> "protagonist",
                   left |-> 0, name |-> <<>>, attempt |-> 0,
                   drawn |-> <<>>, after_loop |-> FALSE, naming |-> <<>> ]
    /\ roster_pc' = "name"
    /\ UNCHANGED roster_frame

\* one turn of for _ in range(30): two draws, break when the name is free
NameTry ==
    /\ roster_pc = "name"
    /\ roster.attempt < NameAttempts
    /\ \E candidate \in {NamePick(roster.rng, roster.bank)} :
         IF NameFree(candidate.val, roster.used)
         THEN /\ roster' = [roster EXCEPT !.rng = candidate.rng,
                                          !.name = candidate.val,
                                          !.drawn = Append(@, candidate.val)]
              /\ roster_pc' = "named"
         ELSE /\ roster' = [roster EXCEPT !.rng = candidate.rng,
                                          !.attempt = @ + 1,
                                          !.drawn = Append(@, candidate.val)]
              /\ UNCHANGED roster_pc
    /\ UNCHANGED roster_frame

\* the for loop ends without a break: name is still ""
NameExhausted ==
    /\ roster_pc = "name"
    /\ roster.attempt >= NameAttempts
    /\ roster_pc' = "named"
    /\ UNCHANGED roster
    /\ UNCHANGED roster_frame

\* if not name: one more pair of draws, taken as it comes
NameFallback ==
    /\ roster_pc = "named"
    /\ roster.name = <<>>
    /\ \E candidate \in {NamePick(roster.rng, roster.bank)} :
         roster' = [roster EXCEPT !.rng = candidate.rng,
                                  !.name = candidate.val,
                                  !.after_loop = TRUE]
    /\ roster_pc' = "picks"
    /\ UNCHANGED roster_frame

\* if not name: skipped
NameKept ==
    /\ roster_pc = "named"
    /\ roster.name # <<>>
    /\ roster_pc' = "picks"
    /\ UNCHANGED roster
    /\ UNCHANGED roster_frame

\* used_names.add(name), the four picks, return Character(...); the caller
\* appends it and enters the next call, or draws the supporting count, or
\* returns chars
CharFinish ==
    /\ roster_pc = "picks"
    /\ \E c \in {CharacterPicks(roster.rng, roster.role, roster.name)} :
         roster' = [roster EXCEPT
             !.rng = c.rng,
             !.chars = Append(@, c.val),
             !.used = @ \cup {roster.name},
             !.naming = Append(@, [ before |-> roster.used,
                                    drawn |-> roster.drawn,
                                    after_loop |-> roster.after_loop,
                                    name |-> roster.name ]),
             !.role = IF roster.role = "protagonist" THEN "antagonist"
                      ELSE "supporting",
             !.left = IF roster.role = "supporting" THEN @ - 1 ELSE @,
             !.name = <<>>, !.attempt = 0, !.drawn = <<>>,
             !.after_loop = FALSE]
    /\ roster_pc' = IF roster.role = "protagonist" THEN "name"
                    ELSE IF roster.role = "antagonist" THEN "count"
                    ELSE IF roster.left > 1 THEN "name" ELSE "done"
    /\ UNCHANGED roster_frame

\* for _ in range(self._rng.randint(2, 3))
RosterCount ==
    /\ roster_pc = "count"
    /\ \E cnt \in {SupportingCount(roster.rng)} :
         /\ roster' = [roster EXCEPT !.rng = cnt.rng, !.left = cnt.val]
         /\ roster_pc' = IF cnt.val > 0 THEN "name" ELSE "done"
    /\ UNCHANGED roster_frame

-----------------------------------------------------------------------------
(* World, plot and chapter outlines.                                       *)

\* str.title() of a word: the word is rewritten with an initial capital
TitleCase(w) == "Title:" \o w

\* words = [w for w in re.split(r"\W+", self.idea) if len(w) > 3][:3]
\* an idea is the sequence of its words
WorldTitle(ideaWords, g) ==
    LET long == SelectSeq(ideaWords, LAMBDA w : Len(w) > 3)
        words == SubSeq(long, 1, IF Len(long) < 3 THEN Len(long) ELSE 3)
    IN  IF words # <<>>
        THEN <<"The World of">> \o [k \in 1..Len(words) |-> TitleCase(words[k])]
        ELSE <<"The World of the", g, "Novel">>

build_world(r, gd, ideaWords, g) ==
    Bind(Sample(r, gd.locations,
                IF Len(gd.locations) < 6 THEN Len(gd.locations) ELSE 6),
         LAMBDA locs :
    Bind(Choice(locs.rng, gd.conflict_elements), LAMBDA ce :
    Bind(Choice(ce.rng, gd.atmosphere), LAMBDA at :
        [ val |-> [ title |-> WorldTitle(ideaWords, g),
                    time_period |-> gd.time_period,
                    locations |-> locs.val,
                    atmosphere_default |-> at.val,
                    world_rules |-> gd.world_rules,
                    central_conflict_element |-> ce.val,
                    themes |-> gd.themes ],
          rng |-> at.rng ])))

\* next(c for c in characters if c.role == role)
FirstWithRole(chars, role) ==
    chars[CHOOSE k \in 1..Len(chars) :
            /\ chars[k].role = role
            /\ \A j \in 1..(k - 1) : chars[j].role # role]

\* one subplot line per supporting character, the first two only
RECURSIVE SubplotLoop(_, _, _, _)
SubplotLoop(r, supporting, themes, acc) ==
    IF supporting = <<>> THEN [val |-> acc, rng |-> r]
    ELSE Bind(Choice(r, themes), LAMBDA th :
         Bind(Head(supporting), LAMBDA sc :
             SubplotLoop(th.rng, Tail(supporting), themes,
                         Append(acc, <<"subplot", sc.name, th.val, sc.motivation>>))))

\* the same with the subplot draws taken after one draw per chapter
build_plot_AfterChapters(r, chars, w) ==
    Bind(FirstWithRole(chars, "protagonist"), LAMBDA protagonist :
    Bind(FirstWithRole(chars, "antagonist"), LAMBDA antagonist :
    Bind(SelectSeq(chars, LAMBDA c : c.role = "supporting"), LAMBDA supporting :
    Bind(SubSeq(supporting, 1, IF Len(supporting) < 2 THEN Len(supporting) ELSE 2),
         LAMBDA two :
    Bind(SubplotLoop([r EXCEPT !.x = (r.x + num_chapters * r.step) % RngMod], two, w.themes, <<>>), LAMBDA subs :
        [ val |-> [ premise |-> <<"premise", protagonist.name, protagonist.backstory,
                                  w.central_conflict_element, antagonist.name,
                                  antagonist.motivation, protagonist.motivation,
                                  protagonist.internal_conflict>>,
                    arc |-> <<"three_acts", protagonist.name,
                              w.central_conflict_element, protagonist.motivation,
                              protagonist.flaw, antagonist.name,
                              protagonist.internal_conflict>>,
                    subplots |-> subs.val,
                    themes |-> w.themes,
                    central_conflict |-> w.central_conflict_element ],
          rng |-> subs.rng ])))))

build_plot(r, chars, w) ==
    Bind(FirstWithRole(chars, "protagonist"), LAMBDA protagonist :
    Bind(FirstWithRole(chars, "antagonist"), LAMBDA antagonist :
    Bind(SelectSeq(chars, LAMBDA c : c.role = "supporting"), LAMBDA supporting :
    Bind(SubSeq(supporting, 1, IF Len(supporting) < 2 THEN Len(supporting) ELSE 2),
         LAMBDA two :
    Bind(SubplotLoop(r, two, w.themes, <<>>), LAMBDA subs :
        [ val |-> [ premise |-> <<"premise", protagonist.name, protagonist.backstory,
                                  w.central_conflict_element, antagonist.name,
                                  antagonist.motivation, protagonist.motivation,
                                  protagonist.internal_conflict>>,
                    arc |-> <<"three_acts", protagonist.name,
                              w.central_conflict_element, protagonist.motivation,
                              protagonist.flaw, antagonist.name,
                              protagonist.internal_conflict>>,
                    subplots |-> subs.val,
                    themes |-> w.themes,
                    central_conflict |-> w.central_conflict_element ],
          rng |-> subs.rng ])))))

\* the keys of beat_titles and of beat_summaries
BeatKeys ==
    { "exposition", "inciting_incident", "rising_action", "complications",
      "midpoint", "darkest_moment", "climax_buildup", "climax", "resolution",
      "full_arc" }

\* beat_titles.get(beat, f"Chapter {i + 1}")
BeatTitle(beat, i) ==
    IF beat \in BeatKeys THEN "title_" \o beat ELSE "Chapter " \o ToString(i + 1)

\* beat_summaries.get(beat, f"The story continues in {loc}.")
BeatSummary(beat, loc) ==
    IF beat \in BeatKeys THEN "summary_" \o beat
    ELSE "The story continues in " \o loc

\* for i, beat in enumerate(beats): one outline, two draws each
RECURSIVE OutlineLoop(_, _, _, _, _, _)
OutlineLoop(r, beats, i, locations, others, acc) ==
    IF i >= Len(beats) THEN [val |-> acc, rng |-> r]
    ELSE Bind(Choice(r, locations), LAMBDA loc :
         Bind(Choice(loc.rng, others), LAMBDA other :
         Bind(beats[i + 1], LAMBDA beat :
             OutlineLoop(other.rng, beats, i + 1, locations, others,
                 Append(acc, [ number |-> i + 1,
                               title |-> BeatTitle(beat, i),
                               beat |-> beat,
                               location |-> loc.val,
                               other_char |-> other.val.name,
                               summary |-> BeatSummary(beat, loc.val) ])))))

build_chapter_outlines_AnyCharacter(r, chars, w, n) ==
    OutlineLoop(r, AssignBeats(n), 0, w.locations, chars, <<>>)

build_chapter_outlines(r, chars, w, n) ==
    Bind(SelectSeq(chars, LAMBDA c : c.role # "protagonist"), LAMBDA others :
        OutlineLoop(r, AssignBeats(n), 0, w.locations, others, <<>>))


-----------------------------------------------------------------------------
(* Chapter prose: write_chapter.                                           *)

\* the keys of the openings dictionary
OpeningKeys ==
    { "exposition", "inciting_incident", "rising_action", "midpoint",
      "complications", "darkest_moment", "climax_buildup", "climax",
      "resolution", "full_arc" }

\* openings.get(beat, openings["rising_action"])
OpeningTemplate(beat) ==
    IF beat \in OpeningKeys THEN "opening_" \o beat ELSE "opening_rising_action"

\* the paragraph pools in the order write_chapter draws from them, with the
\* number of templates each holds
ChapterPools ==
    << <<"approach", 3>>, <<"dialogue", 3>>, <<"internal", 3>>,
       <<"action", 3>>, <<"world_desc", 3>>, <<"second_dialogue", 2>>,
       <<"sensory", 2>>, <<"consequence", 2>>, <<"closing", 3>>,
       <<"backstory_flash", 3>>, <<"setting_movement", 3>>,
       <<"char_thought", 3>>, <<"plot_development", 3>>,
       <<"minor_obstacle", 2>>, <<"resolution_step", 2>>,
       <<"tension_para", 2>>, <<"sensory_immersion", 2>> >>

\* parts = [heading, opening, approach, backstory_flash, ...]: the position
\* in ChapterPools of each part after the opening
PartsOrder == <<1, 10, 2, 3, 11, 4, 12, 5, 13, 6, 14, 7, 15, 16, 8, 17, 9>>

\* one self._pick per pool, in order: the chosen templates
RECURSIVE PoolDraws(_, _, _)
PoolDraws(r, k, acc) ==
    IF k > Len(ChapterPools) THEN [val |-> acc, rng |-> r]
    ELSE Bind(Choice(r, Items(ChapterPools[k][1] \o "_", ChapterPools[k][2])),
              LAMBDA d : PoolDraws(d.rng, k + 1, Append(acc, d.val)))

\* f"Chapter {outline['number']}: {outline['title']}\n" + ("-" * 50)
Heading(outline) ==
    <<"Chapter", "sp", ToString(outline.number) \o ":", "sp", outline.title,
      "nl", "divider">>

\* other_matches[0] if other_matches else self._pick(non-protagonists)
ResolveOther(r, outline, chars, protagonist) ==
    Bind(SelectSeq(chars, LAMBDA c : c.name = outline.other_char),
         LAMBDA other_matches :
        IF other_matches # <<>> THEN [val |-> other_matches[1], rng |-> r]
        ELSE Choice(r, SelectSeq(chars, LAMBDA c : c # protagonist)))

write_chapter(r, outline, chars, w, gd) ==
    Bind(FirstWithRole(chars, "protagonist"), LAMBDA protagonist :
    Bind(ResolveOther(r, outline, chars, protagonist), LAMBDA other :
    Bind(Choice(other.rng, gd.atmosphere), LAMBDA atmosphere :
    Bind(Choice(atmosphere.rng, gd.power_words), LAMBDA adj :
    Bind(Choice(adj.rng, w.themes), LAMBDA theme :
    Bind(FirstWord(protagonist.name), LAMBDA p :
    Bind(FirstWord(other.val.name), LAMBDA o :
    Bind(Words(<<OpeningTemplate(outline.beat)>> \o p \o o
                 \o <<outline.location, atmosphere.val, adj.val, theme.val>>),
         LAMBDA opening :
    Bind(PoolDraws(theme.rng, 1, <<>>), LAMBDA drawn :
    Bind(<<Heading(outline), opening>>
           \o [k \in 1..Len(PartsOrder) |-> <<drawn.val[PartsOrder[k]]>>],
         LAMBDA parts :
        [val |-> Join(ParagraphGap, parts), rng |-> drawn.rng]))))))))))

-----------------------------------------------------------------------------
(* Chapter padding: _pad_chapter.                                          *)

\* the pool holds 15 extension paragraphs
PoolSize == 15

\* paragraph k of the pool: its template and the values it interpolates;
\* the paragraphs differ in length
PoolParagraph(k, p, o, adj) ==
    IF k % 3 = 1 THEN Words(<<"pad_" \o ToString(k)>>)
    ELSE IF k % 3 = 2 THEN Words(<<"pad_" \o ToString(k)>> \o p)
    ELSE Words(<<"pad_" \o ToString(k)>> \o o \o <<adj>>)

\* the locals of _pad_chapter before its loop: four draws, the pool, the
\* first shuffle; given is the text as it was passed in
PadStart(r, text, outline, chars, w, gd, target) ==
    Bind(FirstWithRole(chars, "protagonist"), LAMBDA protagonist :
    Bind(SelectSeq(chars, LAMBDA c : c.role # "protagonist"), LAMBDA others :
    Bind(FirstWord(protagonist.name), LAMBDA p :
    Bind(Choice(r, others), LAMBDA od :
    Bind(FirstWord(od.val.name), LAMBDA o :
    Bind(Choice(od.rng, gd.atmosphere), LAMBDA atmosphere :
    Bind(Choice(atmosphere.rng, gd.power_words), LAMBDA adj :
    Bind(Choice(adj.rng, w.themes), LAMBDA theme :
    Bind([k \in 1..PoolSize |-> PoolParagraph(k, p, o, adj.val)], LAMBDA poolv :
    Bind(Shuffle(theme.rng, poolv), LAMBDA sh :
        [ text |-> text, given |-> text, target_words |-> target, pool |-> poolv,
          extra_paragraphs |-> <<>>, shuffled |-> sh.val, pool_iter |-> 0,
          rng |-> sh.rng ]))))))))))

\* sum(len(ep.split()) for ep in extra_paragraphs)
RECURSIVE SumWords(_)
SumWords(paras) ==
    IF paras = <<>> THEN 0 ELSE WordCount(Head(paras)) + SumWords(Tail(paras))

\* the while condition
PadNotAbove(st) ==
    WordCount(st.text) + SumWords(st.extra_paragraphs) <= st.target_words

PadBelowTarget(st) ==
    WordCount(st.text) + SumWords(st.extra_paragraphs) < st.target_words

\* next(pool_iter) does not raise StopIteration
PadHasNext(st) == st.pool_iter < Len(st.shuffled)

\* extra_paragraphs.append(next(pool_iter))
PadTakeNext(st) ==
    [st EXCEPT !.extra_paragraphs = Append(@, st.shuffled[st.pool_iter + 1]),
               !.pool_iter = @ + 1]

\* except StopIteration: reshuffle a copy of the pool and iterate it anew
PadRestartStale(st) ==
    Bind(Shuffle(st.rng, st.pool), LAMBDA sh :
        [st EXCEPT !.shuffled = sh.val, !.rng = sh.rng])

PadRestart(st) ==
    Bind(Shuffle(st.rng, st.pool), LAMBDA sh :
        [st EXCEPT !.shuffled = sh.val, !.pool_iter = 0, !.rng = sh.rng])

\* if extra_paragraphs: text = text + "\n\n" + "\n\n".join(extra_paragraphs)
PadResult(st) ==
    IF st.extra_paragraphs # <<>>
    THEN st.text \o ParagraphGap \o Join(ParagraphGap, st.extra_paragraphs)
    ELSE st.text

RECURSIVE PadLoop(_)
PadLoop(st) ==
    IF PadBelowTarget(st)
    THEN PadLoop(IF PadHasNext(st) THEN PadTakeNext(st) ELSE PadRestart(st))
    ELSE st

\* _pad_chapter as one evaluation: the returned text and the generator
_pad_chapter(r, text, outline, chars, w, gd, target) ==
    Bind(PadLoop(PadStart(r, text, outline, chars, w, gd, target)), LAMBDA fin :
        [val |-> PadResult(fin), rng |-> fin.rng])

\* _pad_chapter called on its own, one loop iteration per step
PadBegin ==
    /\ pad_pc = "start"
    /\ pad' = PadStart(pad.rng, pad.text, pad.outline, pad.characters,
                       pad.world, pad.gd, pad.target_words)
    /\ pad_pc' = "loop"
    /\ UNCHANGED pad_frame

PadAppend ==
    /\ pad_pc = "loop"
    /\ PadBelowTarget(pad)
    /\ PadHasNext(pad)
    /\ pad' = PadTakeNext(pad)
    /\ UNCHANGED pad_pc
    /\ UNCHANGED pad_frame

PadReshuffle ==
    /\ pad_pc = "loop"
    /\ PadBelowTarget(pad)
    /\ ~PadHasNext(pad)
    /\ pad' = PadRestart(pad)
    /\ UNCHANGED pad_pc
    /\ UNCHANGED pad_frame

PadReturn ==
    /\ pad_pc = "loop"
    /\ ~PadBelowTarget(pad)
    /\ pad' = [pad EXCEPT !.text = PadResult(pad)]
    /\ pad_pc' = "done"
    /\ UNCHANGED pad_frame

-----------------------------------------------------------------------------
(* Formatting and compilation.                                             *)

\* the text up to the first line break
RECURSIVE UpToBreak(_, _)
UpToBreak(text, k) ==
    IF k > Len(text) \/ text[k] = "nl" THEN <<>>
    ELSE <<text[k]>> \o UpToBreak(text, k + 1)

\* text.strip()
RECURSIVE StripRight(_)
StripRight(text) ==
    IF text # <<>> /\ IsSpace(text[Len(text)])
    THEN StripRight(SubSeq(text, 1, Len(text) - 1))
    ELSE text

Strip(text) == StripRight(SubSeq(text, SkipSpace(text, 1), Len(text)))

\* ch.strip().split("\n")[0].replace(divider, "").strip()
TocEntryRaw(ch) == UpToBreak(ch, 1)

TocEntry(ch) ==
    Strip(SelectSeq(UpToBreak(Strip(ch), 1), LAMBDA tok : tok # "divider"))

\* toc = "\n".join(toc_lines): the two heading lines, one indented line per
\* chapter, the Epilogue line
TableOfContents(chapters) ==
    Join(<<"nl">>,
         << <<"TABLE OF CONTENTS">>, <<"rule40">> >>
           \o [k \in 1..Len(chapters) |-> <<"sp", "sp">> \o TocEntry(chapters[k])]
           \o << <<"sp", "sp", "Epilogue">> >>)

\* the epilogue: world.themes[0] raises IndexError on an empty list, and the
\* second theme is world.themes[1] if len(world.themes) > 1 else the literal
SecondTheme(themes) == IF Len(themes) > 1 THEN themes[2] ELSE "what it costs"

Epilogue(name, themes) ==
    IF themes = <<>> THEN [raised |-> <<"IndexError">>, val |-> <<>>]
    ELSE [raised |-> <<>>,
          val |-> <<"EPILOGUE", "nl", "rule40", "nl", "nl", "What happened to">>
                    \o name \o <<"The questions of", themes[1], "and",
                                 SecondTheme(themes), "nl", "nl", "End">>]

\* the document: "\n\n".join(parts), kept as the list of its parts, each a
\* text; nothing is returned when the epilogue raises
_compile(chars, w, chapters) ==
    Bind(FirstWithRole(chars, "protagonist"), LAMBDA protagonist :
    Bind(Epilogue(protagonist.name, w.themes), LAMBDA epilogue :
        [ raised |-> epilogue.raised,
          val |->
            IF epilogue.raised # <<>> THEN <<>>
            ELSE << <<"rule60">>, <<"FICTION NOVEL">>,
                    <<"Generated by Fiction Novel Generator">>, <<"rule60">>,
                    <<>>, <<"DEDICATION">>, <<"rule40">>, <<>>,
                    <<"dedication for">> \o protagonist.name, <<>>,
                    <<"rule60">>, <<>>, TableOfContents(chapters), <<>>,
                    <<"rule60">>, <<>> >>
                   \o chapters
                   \o << <<>>, <<"rule60">>, epilogue.val, <<>>, <<"rule60">> >> ]))

format_character_profiles(chars) == <<"CHARACTER PROFILES", chars>>

world_text(w) ==
    <<"WORLD", w.title, "TIME PERIOD", w.time_period, "KEY LOCATIONS",
      w.locations, "WORLD RULES", w.world_rules, "CENTRAL CONFLICT ELEMENT",
      w.central_conflict_element, "THEMES", w.themes>>

format_plot(pl) == <<"PLOT ARCHITECTURE", pl>>

format_chapter_outlines(outs) == <<"CHAPTER-BY-CHAPTER OUTLINE", outs>>

-----------------------------------------------------------------------------
(* LocalNovelGenerator: construction and generate_all.                     *)

\* the ideas, genres and research texts given to the constructor
Ideas == { <<>>, <<"a", "lighthouse", "keeper">> }

Genres == { "Fantasy", "Horror", "Unknown Genre XYZ" }

Researches == { <<>> }

MaxSalt == 1

\* hash(idea + genre): a function of the text and of the process's salt
StringHash(ideaWords, g, salt) ==
    (Len(ideaWords) + Len(g) + salt) % (MaxSeed + 1)

\* random.Random(seed if seed is not None else hash(idea + genre))
SeedIgnored(sd, ideaWords, g, salt) == SeedRng(StringHash(ideaWords, g, salt))

InitialRng(sd, ideaWords, g, salt) ==
    SeedRng(IF sd # <<>> THEN sd[1] ELSE StringHash(ideaWords, g, salt))

\* the external chapter writers a caller may pass, and what one returns
Writers == { "ollama" }

\* every other chapter comes back with blank space before and after it
WriterReturn(writer, i, outline) ==
    (IF i % 2 = 1 THEN <<"nl", "sp">> ELSE <<>>)
      \o Join(ParagraphGap, << <<"Chapter", "sp", ToString(outline.number) \o ":",
                                "sp", outline.title>>,
                              Words(<<writer, "prose", ToString(i)>>) >>)
      \o (IF i % 2 = 1 THEN <<"sp", "nl">> ELSE <<>>)

\* status(msg): the callback, when given, receives the message
StatusPrepend(log, msg) == IF status_callback THEN <<msg>> \o log ELSE log

Status(log, msg) == IF status_callback THEN Append(log, msg) ELSE log

\* the constructor: the arguments are stored and the generator is seeded
Construct ==
    /\ idea \in Ideas
    /\ genre \in Genres
    /\ research \in Researches
    /\ num_chapters \in 1..MaxGenChapters
    /\ seed \in {<<>>} \cup {<<sd>> : sd \in 0..MaxSeed}
    /\ hash_salt \in 0..MaxSalt
    /\ rng = InitialRng(seed, idea, genre, hash_salt)

\* generate_all is entered with nothing built yet
Enter ==
    /\ status_callback \in BOOLEAN
    /\ chapter_writer \in {"none"} \cup Writers
    /\ pc = "phase2"
    /\ characters = <<>>
    /\ world = <<>>
    /\ plot = <<>>
    /\ outlines = <<>>
    /\ chapter_texts = <<>>
    /\ status_log = <<>>
    /\ writer_log = <<>>
    /\ returned = <<>>

\* Phase 2: build_characters, then build_world
Phase2 ==
    /\ pc = "phase2"
    /\ \E cs \in {build_characters(rng, NameBank(genre))} :
         \E w \in {build_world(cs.rng, GenreData(genre), idea, genre)} :
           /\ characters' = cs.val
           /\ world' = <<w.val>>
           /\ rng' = w.rng
    /\ status_log' = Status(status_log, "Phase 2/7")
    /\ pc' = "phase3"
    /\ UNCHANGED <<idea, genre, research, num_chapters, seed, hash_salt,
                   status_callback, chapter_writer, plot, outlines,
                   chapter_texts, writer_log, returned, prev>>
    /\ UNCHANGED gen_frame

\* Phase 3: format_character_profiles (no draw)
Phase3 ==
    /\ pc = "phase3"
    /\ status_log' = Status(status_log, "Phase 3/7")
    /\ pc' = "phase4"
    /\ UNCHANGED <<idea, genre, research, num_chapters, seed, hash_salt, rng,
                   status_callback, chapter_writer, characters, world, plot,
                   outlines, chapter_texts, writer_log, returned, prev>>
    /\ UNCHANGED gen_frame

\* Phase 4: build_plot
Phase4 ==
    /\ pc = "phase4"
    /\ \E pl \in {build_plot(rng, characters, world[1])} :
           /\ plot' = <<pl.val>>
           /\ rng' = pl.rng
    /\ status_log' = Status(status_log, "Phase 4/7")
    /\ pc' = "phase5"
    /\ UNCHANGED <<idea, genre, research, num_chapters, seed, hash_salt,
                   status_callback, chapter_writer, characters, world,
                   outlines, chapter_texts, writer_log, returned, prev>>
    /\ UNCHANGED gen_frame

\* Phase 5: build_chapter_outlines
Phase5 ==
    /\ pc = "phase5"
    /\ \E os \in {build_chapter_outlines(rng, characters, world[1], num_chapters)} :
           /\ outlines' = os.val
           /\ rng' = os.rng
    /\ status_log' = Status(status_log, "Phase 5/7")
    /\ pc' = "phase6"
    /\ UNCHANGED <<idea, genre, research, num_chapters, seed, hash_salt,
                   status_callback, chapter_writer, characters, world, plot,
                   chapter_texts, writer_log, returned, prev>>
    /\ UNCHANGED gen_frame

\* Phase 6 begins: chapter_texts = []
Phase6 ==
    /\ pc = "phase6"
    /\ chapter_texts' = <<>>
    /\ status_log' = Status(status_log, "Phase 6/7")
    /\ pc' = "chapters"
    /\ UNCHANGED <<idea, genre, research, num_chapters, seed, hash_salt, rng,
                   status_callback, chapter_writer, characters, world, plot,
                   outlines, writer_log, returned, prev>>
    /\ UNCHANGED gen_frame

\* one turn of the chapter loop without a chapter_writer: write_chapter,
\* then _pad_chapter with the default target_words
WriteLocalChapter ==
    /\ pc = "chapters"
    /\ Len(chapter_texts) < Len(outlines)
    /\ chapter_writer = "none"
    /\ \E i \in {Len(chapter_texts)} :
         \E outline \in {outlines[i + 1]} :
         \E written \in {write_chapter(rng, outline, characters, world[1],
                                      GenreData(genre))} :
         \E padded \in {_pad_chapter(written.rng, written.val, outline,
                                     characters, world[1], GenreData(genre),
                                     PipelineTarget)} :
           /\ chapter_texts' = Append(chapter_texts, padded.val)
           /\ rng' = padded.rng
           /\ status_log' = Status(status_log,
                  "Writing chapter " \o ToString(i + 1) \o " of "
                      \o ToString(num_chapters))
    /\ UNCHANGED <<idea, genre, research, num_chapters, seed, hash_salt,
                   status_callback, chapter_writer, pc, characters, world, plot,
                   outlines, writer_log, returned, prev>>
    /\ UNCHANGED gen_frame

\* chapter_writer(i, outline, characters, world, plot): the arguments
WriterArgsOneBased(i, outline) == <<i + 1, outline, characters, world[1], plot[1]>>

WriterArgs(i, outline) == <<i, outline, characters, world[1], plot[1]>>

\* one turn of the chapter loop with a chapter_writer: its return value is
\* the chapter
WriteExternalChapter ==
    /\ pc = "chapters"
    /\ Len(chapter_texts) < Len(outlines)
    /\ chapter_writer # "none"
    /\ \E i \in {Len(chapter_texts)} :
         \E outline \in {outlines[i + 1]} :
           /\ chapter_texts' =
                 Append(chapter_texts, WriterReturn(chapter_writer, i, outline))
           /\ writer_log' =
                 Append(writer_log, WriterArgs(i, outline))
    /\ UNCHANGED <<idea, genre, research, num_chapters, seed, hash_salt, rng,
                   status_callback, chapter_writer, pc, characters, world, plot,
                   outlines, status_log, returned, prev>>
    /\ UNCHANGED gen_frame

\* Phase 7: _compile and the returned mapping
Phase7 ==
    /\ pc = "chapters"
    /\ ~(Len(chapter_texts) < Len(outlines))
    /\ status_log' = Status(status_log, "Phase 7/7")
    /\ returned' =
         << [ novel |-> _compile(characters, world[1], chapter_texts).val,
              world |-> world_text(world[1]),
              characters |-> format_character_profiles(characters),
              plot_outline |-> format_plot(plot[1]),
              chapter_outlines |-> format_chapter_outlines(outlines) ] >>
    /\ pc' = "done"
    /\ UNCHANGED <<idea, genre, research, num_chapters, seed, hash_salt, rng,
                   status_callback, chapter_writer, characters, world, plot,
                   outlines, chapter_texts, writer_log, prev>>
    /\ UNCHANGED gen_frame

\* a second generator is constructed with the same idea, genre, research
\* and seed, in this process or in a new one, and generate_all is entered
\* again; the first run's inputs and artefacts are remembered
Rerun ==
    /\ pc = "done"
    /\ prev = <<>>
    /\ prev' = << [ idea |-> idea, genre |-> genre, research |-> research,
                    num_chapters |-> num_chapters, seed |-> seed,
                    chapter_writer |-> chapter_writer,
                    characters |-> characters, world |-> world, plot |-> plot,
                    outlines |-> outlines, chapter_texts |-> chapter_texts,
                    returned |-> returned ] >>
    /\ num_chapters' \in 1..MaxGenChapters
    /\ hash_salt' \in 0..MaxSalt
    /\ rng' = InitialRng(seed, idea, genre, hash_salt')
    /\ chapter_writer' \in {"none"} \cup Writers
    /\ pc' = "phase2"
    /\ characters' = <<>>
    /\ world' = <<>>
    /\ plot' = <<>>
    /\ outlines' = <<>>
    /\ chapter_texts' = <<>>
    /\ status_log' = <<>>
    /\ writer_log' = <<>>
    /\ returned' = <<>>
    /\ UNCHANGED <<idea, genre, research, seed, status_callback>>
    /\ UNCHANGED gen_frame

-----------------------------------------------------------------------------
(* Research parsing: _extract_from_research.                                *)
(*                                                                         *)
(* A research line is a record: lead, the run of blanks and of the         *)
(* characters "-", "*", "#" it begins with; stem and len, the content and  *)
(* the length of what follows up to the last non-blank character; marks,   *)
(* the words in it that spell a keyword of some bucket, in the line's own  *)
(* case; trail, the number of blanks at its end.  A string cut from a line *)
(* is the record of its stem and its length; stems name contents that      *)
(* differ from their first character on.                                   *)

\* if len(stripped) < 15 or len(stripped) > 200: continue
MinLineLen == 15

MaxLineLen == 200

\* stripped[:100] for themes and settings, stripped[:80] for the others
LongCut == 100

ShortCut == 80

\* themes[:5], settings[:5], keywords[:10], time_hints[:3], idea_words[:5]
ThemeCap == 5

SettingCap == 5

KeywordCap == 10

TimeCap == 3

IdeaWordCap == 5

theme_words == {"theme", "motif", "symbol", "explore", "central", "universal"}

setting_words == {"setting", "location", "place", "geography", "landscape",
                  "city", "town", "world", "environment"}

time_words == {"century", "era", "period", "age", "decade", "epoch", "year"}

\* str.lower() of a word
LowerWord(w) ==
    CASE w = "Central" -> "central"
      [] w = "THEME" -> "theme"
      [] w = "City" -> "city"
      [] OTHER -> w

\* any(w in lower for w in words)
HasAnyAsSpelled(line, words) == \E w \in line.marks : w \in words

HasAny(line, words) == \E w \in line.marks : LowerWord(w) \in words

\* line.strip().lstrip("- *#").strip(): lead and trail are gone
StrippedLine(line) == [stem |-> line.stem, len |-> line.len]

\* s[:n]
Cut(s, n) == [s EXCEPT !.len = IF s.len < n THEN s.len ELSE n]

\* lst[:n]
TakeAll(lst, n) == lst

Take(lst, n) == SubSeq(lst, 1, IF Len(lst) < n THEN Len(lst) ELSE n)

\* len(stripped) < 15 or len(stripped) > 200
DiscardedAtBounds(stripped) ==
    stripped.len <= MinLineLen \/ stripped.len >= MaxLineLen

Discarded(stripped) == stripped.len < MinLineLen \/ stripped.len > MaxLineLen

\* re.split(r"\W+", idea): an idea is the sequence of its words and of the
\* non-word characters between them; a run of non-word characters is one
\* separator, and one at either end leaves an empty string there
IsWordToken(tok) == tok \notin {" ", "-", ",", "!"}

RECURSIVE SplitFrom(_, _, _, _)
SplitFrom(toks, k, acc, open) ==
    IF k > Len(toks) THEN (IF open THEN acc ELSE Append(acc, ""))
    ELSE IF IsWordToken(toks[k])
         THEN SplitFrom(toks, k + 1, Append(acc, toks[k]), TRUE)
         ELSE SplitFrom(toks, k + 1,
                        IF k = 1 THEN Append(acc, "") ELSE acc, FALSE)

IdeaSplit(toks) == IF toks = <<>> THEN <<"">> ELSE SplitFrom(toks, 1, <<>>, FALSE)

\* if len(w) > 4
LongWordLoose(w) == Len(w) >= 4

LongWord(w) == Len(w) > 4

\* idea_words = [w for w in re.split(r"\W+", idea) if len(w) > 4]
idea_words(toks) == SelectSeq(IdeaSplit(toks), LongWord)

\* x or default
OrDefault(lst, default) == IF lst # <<>> THEN lst ELSE default

\* the returned mapping
ExtractResult(e) ==
    [ themes     |-> OrDefault(Take(e.themes, ThemeCap),
                               <<"identity", "courage", "sacrifice">>),
      settings   |-> Take(e.settings, SettingCap),
      keywords   |-> OrDefault(Take(e.keywords, KeywordCap),
                               Take(idea_words(e.idea), IdeaWordCap)),
      time_hints |-> Take(e.time_hints, TimeCap) ]

\* the research texts: a text has lines of a few kinds, and the fewer kinds
\* the more lines.  A theme, setting or time line is the first of its kind
\* or one not seen before.
MaxLines == 11

ResearchShapes ==
    { [kinds |-> {"theme", "long theme", "mixed", "short"}, lines |-> MaxLines - 4],
      [kinds |-> {"setting", "overlong"}, lines |-> MaxLines - 4],
      [kinds |-> {"time", "blank"}, lines |-> MaxLines - 6],
      [kinds |-> {"plain", "short"}, lines |-> MaxLines],
      [kinds |-> {"theme", "long theme", "mixed", "setting", "time", "plain",
                  "short", "overlong", "blank"}, lines |-> MaxLines - 8] }

Fresh(bucket, kind) ==
    1 + Cardinality({bucket[k].stem[2] : k \in {j \in 1..Len(bucket) : bucket[j].stem[1] = kind}})

LineOf(kind, id) ==
    CASE kind = "theme" ->
           [lead |-> <<"-", " ">>, stem |-> <<kind, id>>, len |-> 42,
            marks |-> {"central", "theme", "explore"}, trail |-> 0]
      [] kind = "long theme" ->
           [lead |-> <<>>, stem |-> <<kind, id>>, len |-> 150,
            marks |-> {"THEME"}, trail |-> 1]
      [] kind = "mixed" ->
           [lead |-> <<"#", "#", " ">>, stem |-> <<kind, id>>, len |-> 200,
            marks |-> {"symbol", "City", "century"}, trail |-> 0]
      [] kind = "setting" ->
           [lead |-> <<" ">>, stem |-> <<kind, id>>, len |-> 30,
            marks |-> {"landscape", "era"}, trail |-> 0]
      [] kind = "time" ->
           [lead |-> <<"*", " ">>, stem |-> <<kind, id>>, len |-> 90,
            marks |-> {"century"}, trail |-> 0]
      [] kind = "plain" ->
           [lead |-> <<>>, stem |-> <<kind, id>>, len |-> 15,
            marks |-> {}, trail |-> 0]
      [] kind = "short" ->
           [lead |-> <<"#", "#", "#", " ">>, stem |-> <<kind, id>>, len |-> 14,
            marks |-> {"theme"}, trail |-> 2]
      [] kind = "overlong" ->
           [lead |-> <<>>, stem |-> <<kind, id>>, len |-> 201,
            marks |-> {"Central"}, trail |-> 0]
      [] OTHER ->
           [lead |-> <<" ">>, stem |-> <<"blank", 0>>, len |-> 0,
            marks |-> {}, trail |-> 0]

NextLines(e) ==
    {LineOf(kind, id) :
        kind \in e.shape.kinds \cap {"theme"}, id \in {1, Fresh(e.themes, "theme")}}
      \cup {LineOf(kind, id) :
        kind \in e.shape.kinds \cap {"setting"}, id \in {1, Fresh(e.settings, "setting")}}
      \cup {LineOf(kind, id) :
        kind \in e.shape.kinds \cap {"time"}, id \in {1, Fresh(e.time_hints, "time")}}
      \cup {LineOf(kind, 1) : kind \in e.shape.kinds \ {"theme", "setting", "time"}}

ExtractIdeas ==
    { <<>>,
      <<"tide", " ", "lamp">>,
      <<"storm", " ", "tide", "-", "keeper", ",", " ", "lantern", " ", "harbour",
        " ", "isle", " ", "island", " ", "beacon", " ", "coast", "!">> }

\* the loop reads one more line of the research text
ReadLine(line) ==
    [extract EXCEPT !.read = @ + 1, !.seen = @ \cup {line}]

\* for line in research.split("\n"): the line is too short or too long
ExtractSkip ==
    /\ extract_pc = "scan"
    /\ extract.read < extract.shape.lines
    /\ \E line \in NextLines(extract) :
         /\ Discarded(StrippedLine(line))
         /\ extract' = ReadLine(line)
    /\ UNCHANGED extract_pc
    /\ UNCHANGED extract_frame

\* the line has a theme word
ExtractTheme ==
    /\ extract_pc = "scan"
    /\ extract.read < extract.shape.lines
    /\ \E line \in NextLines(extract) :
       \E stripped \in {StrippedLine(line)} :
         /\ ~Discarded(stripped)
         /\ HasAny(line, theme_words)
         /\ extract' =
              [ReadLine(line) EXCEPT !.themes =
                  IF stripped \notin {extract.themes[k] : k \in 1..Len(extract.themes)}
                  THEN Append(@, Cut(stripped, LongCut)) ELSE @]
    /\ UNCHANGED extract_pc
    /\ UNCHANGED extract_frame

\* the line has no theme word and has a setting word
ExtractSetting ==
    /\ extract_pc = "scan"
    /\ extract.read < extract.shape.lines
    /\ \E line \in NextLines(extract) :
       \E stripped \in {StrippedLine(line)} :
         /\ ~Discarded(stripped)
         /\ ~HasAny(line, theme_words)
         /\ HasAny(line, setting_words)
         /\ extract' =
              [ReadLine(line) EXCEPT !.settings =
                  IF stripped \notin {extract.settings[k] : k \in 1..Len(extract.settings)}
                  THEN Append(@, Cut(stripped, LongCut)) ELSE @]
    /\ UNCHANGED extract_pc
    /\ UNCHANGED extract_frame

\* the line has neither and has a time word
ExtractTime ==
    /\ extract_pc = "scan"
    /\ extract.read < extract.shape.lines
    /\ \E line \in NextLines(extract) :
       \E stripped \in {StrippedLine(line)} :
         /\ ~Discarded(stripped)
         /\ ~HasAny(line, theme_words)
         /\ ~HasAny(line, setting_words)
         /\ HasAny(line, time_words)
         /\ extract' =
              [ReadLine(line) EXCEPT !.time_hints =
                  IF stripped \notin {extract.time_hints[k] : k \in 1..Len(extract.time_hints)}
                  THEN Append(@, Cut(stripped, ShortCut)) ELSE @]
    /\ UNCHANGED extract_pc
    /\ UNCHANGED extract_frame

\* the line has none of the words
ExtractKeyword ==
    /\ extract_pc = "scan"
    /\ extract.read < extract.shape.lines
    /\ \E line \in NextLines(extract) :
       \E stripped \in {StrippedLine(line)} :
         /\ ~Discarded(stripped)
         /\ ~HasAny(line, theme_words)
         /\ ~HasAny(line, setting_words)
         /\ ~HasAny(line, time_words)
         /\ extract' =
              [ReadLine(line) EXCEPT !.keywords = Append(@, Cut(stripped, ShortCut))]
    /\ UNCHANGED extract_pc
    /\ UNCHANGED extract_frame

\* the research text has no further line: the mapping is returned
ExtractReturn ==
    /\ extract_pc = "scan"
    /\ extract_pc' = "done"
    /\ extract' = [extract EXCEPT !.result = <<ExtractResult(extract)>>]
    /\ UNCHANGED extract_frame

-----------------------------------------------------------------------------
(* _compile called on its own.                                              *)

\* the theme lists a World may carry, the chapter lists and the rosters
CompileThemes ==
    { <<>>, <<"loss">>, <<"loss", "memory">>, <<"loss", "memory", "hope">> }

ChapterSamples ==
    { <<>>,
      <<"Chapter", "sp", "1:", "sp", "Arrival", "nl", "divider", "nl", "nl", "prose">>,
      <<"nl", "sp", "Heading", "sp", "divider", "nl", "body", "sp">> }

CompileChapters ==
    { <<>> } \cup { <<c>> : c \in ChapterSamples }
             \cup { <<c, d>> : c \in ChapterSamples, d \in ChapterSamples }

CompileRosters ==
    { << [name |-> <<"Ada", "sp", "Vale">>, role |-> "protagonist"],
         [name |-> <<"Bram", "sp", "Holt">>, role |-> "antagonist"] >>,
      << [name |-> <<"Bram", "sp", "Holt">>, role |-> "antagonist"],
         [name |-> <<"Cora", "sp", "Wren">>, role |-> "protagonist"] >> }

\* return "\n\n".join(parts)
CompileReturn ==
    /\ compile_pc = "start"
    /\ \E c \in {_compile(compile_st.characters, [themes |-> compile_st.themes],
                          compile_st.chapters)} :
         /\ c.raised = <<>>
         /\ compile_st' = [compile_st EXCEPT !.doc = <<c.val>>]
    /\ compile_pc' = "done"
    /\ UNCHANGED compile_frame

\* an exception leaves _compile
CompileRaise ==
    /\ compile_pc = "start"
    /\ \E c \in {_compile(compile_st.characters, [themes |-> compile_st.themes],
                          compile_st.chapters)} :
         /\ c.raised # <<>>
         /\ compile_st' = [compile_st EXCEPT !.error = c.raised]
    /\ compile_pc' = "raised"
    /\ UNCHANGED compile_frame

-----------------------------------------------------------------------------
(* Chapter navigation: detect_chapters (editor/chapter_navigator.py).       *)
(*                                                                         *)
(* A text is the sequence of its lines.  A line is a record: len, its      *)
(* length in characters; blank, whether it has only white space; pat, the  *)
(* one pattern of CHAPTER_PATTERNS that matches at its start, or 0; head,  *)
(* what the pattern matches without the white space before it.             *)

\* CHAPTER_PATTERNS has five patterns
PatternCount == 5

\* the lines a text is made of
NavLines ==
    { [len |-> 9,  blank |-> FALSE, pat |-> 1, head |-> "Chapter 1"],
      [len |-> 19, blank |-> FALSE, pat |-> 1, head |-> "Chapter 12"],
      [len |-> 11, blank |-> FALSE, pat |-> 2, head |-> "chapter two"],
      [len |-> 7,  blank |-> FALSE, pat |-> 3, head |-> "PART IV"],
      [len |-> 8,  blank |-> FALSE, pat |-> 4, head |-> "Part One"],
      [len |-> 8,  blank |-> FALSE, pat |-> 5, head |-> "Epilogue"],
      [len |-> 18, blank |-> FALSE, pat |-> 0, head |-> ""],
      [len |-> 1,  blank |-> TRUE,  pat |-> 0, head |-> ""] }

\* the longest text, in lines
MaxNavLines == 3

NavTexts == UNION { [1..n -> NavLines] : n \in 0..MaxNavLines }

\* the position of the first character of line j: every line before it
\* and its line break
RECURSIVE LineStart(_, _)
LineStart(text, j) ==
    IF j <= 1 THEN 0 ELSE LineStart(text, j - 1) + text[j - 1].len + 1

\* ^\s* with re.MULTILINE: the match begins at the start of the first of
\* the blank lines that stand right before the heading
RECURSIVE RunStart(_, _)
RunStart(text, i) ==
    IF i > 1 /\ text[i - 1].blank THEN RunStart(text, i - 1) ELSE i

\* pat.finditer(text): (m.start(), m.group(0).strip()) of each match, in
\* text order
RECURSIVE MatchesFrom(_, _, _)
MatchesFrom(text, k, i) ==
    IF i > Len(text) THEN <<>>
    ELSE (IF text[i].pat = k
          THEN << <<LineStart(text, RunStart(text, i)), text[i].head>> >>
          ELSE <<>>)
         \o MatchesFrom(text, k, i + 1)

\* results.sort(key=lambda x: x[0]): a stable sort by position
RECURSIVE InsertByPos(_, _)
InsertByPos(sorted, x) ==
    IF sorted = <<>> THEN <<x>>
    ELSE IF sorted[Len(sorted)][1] <= x[1] THEN Append(sorted, x)
    ELSE Append(InsertByPos(SubSeq(sorted, 1, Len(sorted) - 1), x),
                sorted[Len(sorted)])

RECURSIVE SortFrom(_, _, _)
SortFrom(results, k, acc) ==
    IF k > Len(results) THEN acc
    ELSE SortFrom(results, k + 1, InsertByPos(acc, results[k]))

SortKeep(results) == results

SortByPos(results) == SortFrom(results, 1, <<>>)

\* for m in pat.finditer(text): the next match is recorded unless its
\* position has been seen
NavMatch ==
    /\ nav_pc = "scan"
    /\ nav.todo # <<>>
    /\ \E found \in {Head(nav.todo)} :
         nav' = [nav EXCEPT
                   !.todo = Tail(@),
                   !.seen_positions = @ \cup {found[1]},
                   !.results = IF found[1] \notin nav.seen_positions
                               THEN Append(@, found) ELSE @]
    /\ UNCHANGED nav_pc
    /\ UNCHANGED nav_frame

\* for pat in CHAPTER_PATTERNS: the next pattern is searched
NavNextPattern ==
    /\ nav_pc = "scan"
    /\ nav.todo = <<>>
    /\ nav.pat < PatternCount
    /\ nav' = [nav EXCEPT !.pat = @ + 1,
                          !.todo = MatchesFrom(nav.text, nav.pat + 1, 1)]
    /\ UNCHANGED nav_pc
    /\ UNCHANGED nav_frame

\* results.sort(...); return results
NavReturn ==
    /\ nav_pc = "scan"
    /\ nav.todo = <<>>
    /\ nav.pat = PatternCount
    /\ nav' = [nav EXCEPT !.returned = <<SortByPos(nav.results)>>]
    /\ nav_pc' = "done"
    /\ UNCHANGED nav_frame

-----------------------------------------------------------------------------
(* Specifications.                                                         *)

-----------------------------------------------------------------------------
(* NovelEngine._generate: one prompt sent to the model with retries.       *)

\* characters that str.lower() changes, and what it changes them to
UpperLetters ==
    <<"A", "B", "C", "D", "E", "F", "G", "H", "I", "J", "K", "L", "M", "N",
    "O", "P", "Q", "R", "S", "T", "U", "V", "W", "X", "Y", "Z">>

LowerLetters ==
    <<"a", "b", "c", "d", "e", "f", "g", "h", "i", "j", "k", "l", "m", "n",
    "o", "p", "q", "r", "s", "t", "u", "v", "w", "x", "y", "z">>

\* str.lower() on a string given as its characters
lower(s) ==
    [k \in 1..Len(s) |->
        IF \E u \in 1..Len(UpperLetters) : UpperLetters[u] = s[k]
        THEN LowerLetters[CHOOSE u \in 1..Len(UpperLetters) : UpperLetters[u] = s[k]]
        ELSE s[k]]

\* kw in s: kw occurs in s as a substring
Contains(kw, s) ==
    \E k \in 1..(Len(s) - Len(kw) + 1) : SubSeq(s, k, k + Len(kw) - 1) = kw

_TRANSIENT_KEYWORDS ==
    << <<"u", "n", "a", "v", "a", "i", "l", "a", "b", "l", "e">>,
       <<"t", "i", "m", "e", "o", "u", "t">>,
       <<"r", "a", "t", "e">>,
       <<"4", "2", "9">>,
       <<"5", "0", "3">>,
       <<"5", "0", "0">> >>

\* any(kw in error_lower for kw in _TRANSIENT_KEYWORDS), error_lower being
\* str(exc).lower()
is_transient(exc) ==
    \E k \in 1..Len(_TRANSIENT_KEYWORDS) :
        Contains(_TRANSIENT_KEYWORDS[k], lower(exc.str))

\* for attempt in range(3)
MaxAttempts == 3

\* attempt < 2
LastRetryAttempt == 2

\* 2 ** attempt, the seconds slept before the next attempt
BackoffSeconds(attempt) == 2 ^ attempt

\* What model.generate_content can raise, each with the text str(exc) gives:
\* the status code followed by the message.  A quota error is the service's
\* 429 (ResourceExhausted), a rate-limit error its TooManyRequests.
ApiErrors ==
    { [ kind |-> "network",
        str |-> <<"5", "0", "3", " ", "S", "e", "r", "v", "i", "c", "e",
                " ", "U", "n", "a", "v", "a", "i", "l", "a", "b", "l", "e">> ],
      [ kind |-> "network",
        str |-> <<"5", "0", "4", " ", "D", "e", "a", "d", "l", "i", "n",
                "e", " ", "E", "x", "c", "e", "e", "d", "e", "d">> ],
      [ kind |-> "rate_limit",
        str |-> <<"4", "2", "9", " ", "T", "o", "o", " ", "M", "a", "n",
                "y", " ", "R", "e", "q", "u", "e", "s", "t", "s">> ],
      [ kind |-> "quota",
        str |-> <<"4", "2", "9", " ", "Q", "u", "o", "t", "a", " ", "e",
                "x", "c", "e", "e", "d", "e", "d">> ],
      [ kind |-> "auth",
        str |-> <<"4", "0", "1", " ", "A", "P", "I", " ", "k", "e", "y",
                " ", "n", "o", "t", " ", "v", "a", "l", "i", "d">> ],
      [ kind |-> "other",
        str |-> <<"R", "e", "s", "p", "o", "n", "s", "e", " ", "b", "l",
                "o", "c", "k", "e", "d">> ] }

\* response.text of a call that succeeds
ApiTexts == { <<"Once", "upon">>, <<"The", "end">> }

\* raise ValueError("No Gemini API key found. ...")
NoKeyError == [ kind |-> "no_key", str |-> <<"N", "o", " ", "k", "e", "y">> ]

\* _get_model finds no API key: ValueError before any call is made
ApiNoKey ==
    /\ api_pc = "start"
    /\ ~api.has_key
    /\ api' = [api EXCEPT !.raised = <<NoKeyError>>]
    /\ api_pc' = "raised"
    /\ UNCHANGED api_frame

\* model = self._get_model(); the loop starts at attempt 0
ApiGetModel ==
    /\ api_pc = "start"
    /\ api.has_key
    /\ api' = [api EXCEPT !.attempt = 0]
    /\ api_pc' = "call"
    /\ UNCHANGED api_frame

\* response = model.generate_content(prompt); return response.text
ApiCallReturn ==
    /\ api_pc = "call"
    /\ \E text \in ApiTexts :
         api' = [api EXCEPT !.calls = Append(@, [ ok |-> TRUE, text |-> text ]),
                            !.result = <<text>>]
    /\ api_pc' = "returned"
    /\ UNCHANGED api_frame

\* the call raises; attempt < 2 and is_transient: time.sleep(2 ** attempt)
ApiCallRetry ==
    /\ api_pc = "call"
    /\ \E exc \in ApiErrors :
         /\ api.attempt < LastRetryAttempt /\ is_transient(exc)
         /\ api' = [api EXCEPT !.calls = Append(@, [ ok |-> FALSE, exc |-> exc ]),
                               !.sleeping = <<BackoffSeconds(api.attempt)>>]
    /\ api_pc' = "sleep"
    /\ UNCHANGED api_frame

\* the call raises; otherwise: raise
ApiCallRaise ==
    /\ api_pc = "call"
    /\ \E exc \in ApiErrors :
         /\ ~(api.attempt < LastRetryAttempt /\ is_transient(exc))
         /\ api' = [api EXCEPT !.calls = Append(@, [ ok |-> FALSE, exc |-> exc ]),
                               !.raised = <<exc>>]
    /\ api_pc' = "raised"
    /\ UNCHANGED api_frame

\* the sleep ends; the loop goes on with the next attempt
ApiWake ==
    /\ api_pc = "sleep"
    /\ api.attempt + 1 < MaxAttempts
    /\ api' = [api EXCEPT !.pauses = @ \o api.sleeping,
                          !.sleeping = <<>>,
                          !.attempt = @ + 1]
    /\ api_pc' = "call"
    /\ UNCHANGED api_frame


\* _assign_beats is not running
BeatIdle ==
    /\ beat_n = 0
    /\ beat_pc = "idle"
    /\ beat_i = 0
    /\ indices = <<>>
    /\ beat_result = <<>>

\* _pad_chapter is not running on its own
PadIdle ==
    /\ pad_pc = "idle"
    /\ pad = <<>>

\* no generator has been constructed
GenIdle ==
    /\ idea = <<>>
    /\ genre = "General"
    /\ research = <<>>
    /\ num_chapters = 1
    /\ seed = <<>>
    /\ hash_salt = 0
    /\ rng = SeedRng(0)
    /\ status_callback = FALSE
    /\ chapter_writer = "none"
    /\ pc = "idle"
    /\ characters = <<>>
    /\ world = <<>>
    /\ plot = <<>>
    /\ outlines = <<>>
    /\ chapter_texts = <<>>
    /\ status_log = <<>>
    /\ writer_log = <<>>
    /\ returned = <<>>
    /\ prev = <<>>

\* build_characters is not running on its own
RosterIdle ==
    /\ roster_pc = "idle"
    /\ roster = <<>>

\* _extract_from_research is not running on its own
ExtractIdle ==
    /\ extract_pc = "idle"
    /\ extract = <<>>

\* _compile is not running on its own
CompileIdle ==
    /\ compile_pc = "idle"
    /\ compile_st = <<>>

\* detect_chapters is not running
NavIdle ==
    /\ nav_pc = "idle"
    /\ nav = <<>>

\* _generate is not running
ApiIdle ==
    /\ api_pc = "idle"
    /\ api = <<>>

SideIdle == CompileIdle /\ NavIdle /\ ApiIdle

BeatIdleRest == PadIdle /\ RosterIdle /\ ExtractIdle /\ GenIdle /\ SideIdle

\* _assign_beats called on its own with any chapter count
BeatInit ==
    /\ beat_n \in 0..MaxChapters
    /\ beat_pc = "start"
    /\ beat_i = 0
    /\ indices = <<>>
    /\ beat_result = <<>>
    /\ BeatIdleRest

BeatNext ==
    \/ BeatsOne
    \/ BeatsTwo
    \/ BeatsSelectBegin
    \/ BeatsSelectStep
    \/ BeatsSelectEnd
    \/ BeatsInsertBegin
    \/ BeatsInsertStep
    \/ BeatsInsertEnd

BeatSpec == BeatInit /\ [][BeatNext]_vars

\* the texts and generator states given to _pad_chapter on its own; the
\* roster, world and outline are those of one generation run
PadTexts ==
    { <<>>, <<"a">>, <<"sp", "a", "nl", "b", "sp">>, <<"a", "b">>,
      Words(<<"a", "b", "c", "d", "e">>) }

PadArguments ==
    Bind(GenreData("Fantasy"), LAMBDA gd :
    Bind(build_characters(SeedRng(8), NameBank("Fantasy")), LAMBDA cs :
    Bind(build_world(cs.rng, gd, <<>>, "Fantasy"), LAMBDA w :
    Bind(build_chapter_outlines(w.rng, cs.val, w.val, 1), LAMBDA os :
        [characters |-> cs.val, world |-> w.val, gd |-> gd, outline |-> os.val[1]]))))

PadInit ==
    /\ pad_pc = "start"
    /\ \E text \in PadTexts, target \in 0..MaxTarget, sd \in 0..MaxSeed :
         pad = [ text |-> text, target_words |-> target, rng |-> SeedRng(sd),
                 outline |-> PadArguments.outline,
                 characters |-> PadArguments.characters,
                 world |-> PadArguments.world, gd |-> PadArguments.gd ]
    /\ BeatIdle
    /\ RosterIdle
    /\ ExtractIdle
    /\ GenIdle
    /\ SideIdle

\* build_characters called on its own with either kind of name bank and
\* any generator state
RosterInit ==
    /\ roster_pc = "start"
    /\ \E g \in {"Fantasy", "Horror"}, r \in RngStates :
         roster = [bank |-> NameBank(g), rng |-> r]
    /\ BeatIdle
    /\ PadIdle
    /\ ExtractIdle
    /\ GenIdle
    /\ SideIdle

RosterNext ==
    \/ RosterBegin
    \/ NameTry
    \/ NameExhausted
    \/ NameFallback
    \/ NameKept
    \/ CharFinish
    \/ RosterCount

RosterSpec == RosterInit /\ [][RosterNext]_vars

\* _extract_from_research is entered: the four buckets are empty
ExtractInit ==
    /\ extract_pc = "scan"
    /\ \E i \in ExtractIdeas, sh \in ResearchShapes :
         extract = [ idea |-> i, shape |-> sh, themes |-> <<>>, settings |-> <<>>,
                     keywords |-> <<>>, time_hints |-> <<>>,
                     read |-> 0, seen |-> {}, result |-> <<>> ]
    /\ BeatIdle
    /\ PadIdle
    /\ RosterIdle
    /\ GenIdle
    /\ SideIdle

ExtractNext ==
    \/ ExtractSkip
    \/ ExtractTheme
    \/ ExtractSetting
    \/ ExtractTime
    \/ ExtractKeyword
    \/ ExtractReturn

ExtractSpec == ExtractInit /\ [][ExtractNext]_vars

CompileInit ==
    /\ compile_pc = "start"
    /\ \E cs \in CompileRosters, th \in CompileThemes, chs \in CompileChapters :
         compile_st = [ characters |-> cs, themes |-> th, chapters |-> chs,
                        doc |-> <<>>, error |-> <<>> ]
    /\ BeatIdle
    /\ PadIdle
    /\ RosterIdle
    /\ ExtractIdle
    /\ GenIdle
    /\ NavIdle
    /\ ApiIdle

CompileNext ==
    \/ CompileReturn
    \/ CompileRaise

CompileSpec == CompileInit /\ [][CompileNext]_vars

\* detect_chapters is entered: nothing found yet, the first pattern is searched
NavInit ==
    /\ nav_pc = "scan"
    /\ \E text \in NavTexts :
         nav = [ text |-> text, pat |-> 1, todo |-> MatchesFrom(text, 1, 1),
                 results |-> <<>>, seen_positions |-> {}, returned |-> <<>> ]
    /\ BeatIdle
    /\ PadIdle
    /\ RosterIdle
    /\ ExtractIdle
    /\ GenIdle
    /\ CompileIdle
    /\ ApiIdle

NavNext ==
    \/ NavMatch
    \/ NavNextPattern
    \/ NavReturn

NavSpec == NavInit /\ [][NavNext]_vars

\* _generate is entered with a prompt; the engine has made no model yet
ApiInit ==
    /\ api_pc = "start"
    /\ \E has_key \in BOOLEAN, prompt \in {"world", "chapter"} :
         api = [ prompt |-> prompt, has_key |-> has_key, attempt |-> 0,
                 calls |-> <<>>, pauses |-> <<>>, sleeping |-> <<>>,
                 result |-> <<>>, raised |-> <<>> ]
    /\ BeatIdle
    /\ PadIdle
    /\ RosterIdle
    /\ ExtractIdle
    /\ GenIdle
    /\ CompileIdle
    /\ NavIdle

ApiNext ==
    \/ ApiNoKey
    \/ ApiGetModel
    \/ ApiCallReturn
    \/ ApiCallRetry
    \/ ApiCallRaise
    \/ ApiWake

ApiSpec == ApiInit /\ [][ApiNext]_vars

PadNext ==
    \/ PadBegin
    \/ PadAppend
    \/ PadReshuffle
    \/ PadReturn

PadSpec == PadInit /\ [][PadNext]_vars

\* the interpreter keeps executing the loop
PadFairSpec == PadSpec /\ WF_vars(PadNext)

Init ==
    /\ Construct
    /\ Enter
    /\ prev = <<>>
    /\ BeatIdle
    /\ PadIdle
    /\ RosterIdle
    /\ ExtractIdle
    /\ SideIdle

Next ==
    \/ Phase2
    \/ Phase3
    \/ Phase4
    \/ Phase5
    \/ Phase6
    \/ WriteLocalChapter
    \/ WriteExternalChapter
    \/ Phase7
    \/ Rerun

Spec == Init /\ [][Next]_vars

-----------------------------------------------------------------------------
(* Properties of _assign_beats, checked under BeatSpec.                    *)

\* C1: for every chapter count N >= 1 the list _assign_beats(N) returns has
\* exactly N beat labels.
C1_BeatCount ==
    (beat_pc = "done" /\ beat_n >= 1) => Len(beat_result) = beat_n

C1_Witness ==
    /\ beat_pc = "done"
    /\ beat_n = 12
    /\ Len(beat_result) = 12

\* C2: for 2 <= N <= 10 the first returned beat is "exposition" and the last
\* is "resolution".
C2_BeatBoundary ==
    (beat_pc = "done" /\ beat_n >= 2 /\ beat_n <= 10) =>
        /\ beat_result[1] = "exposition"
        /\ beat_result[Len(beat_result)] = "resolution"

C2_Witness ==
    /\ beat_pc = "done"
    /\ beat_n = 7
    /\ beat_result[1] = "exposition"
    /\ beat_result[7] = "resolution"

\* C3: for N > 10 the list ends climax_buildup, climax, resolution, and it
\* does so after every single insertion, each extra beat going in before
\* these three.
C3_BeatTail ==
    (beat_pc \in {"insert", "done"} /\ beat_n > 10) =>
        /\ Len(beat_result) >= 3
        /\ SubSeq(beat_result, Len(beat_result) - 2, Len(beat_result))
             = <<"climax_buildup", "climax", "resolution">>

C3_Witness ==
    /\ beat_pc = "done"
    /\ beat_n = 13
    /\ beat_i = 3
    /\ beat_result[11] = "climax_buildup"

\* C4: for N > 10 the result is the first 7 canonical beats, then N-10 extra
\* beats alternating rising_action, complications, ... in insertion order,
\* then climax_buildup, climax, resolution; for N = 12 the block of extras
\* is [rising_action, complications].
C4_BeatBlock ==
    (beat_pc = "done" /\ beat_n > 10) =>
        /\ beat_result =
             << "exposition", "inciting_incident", "rising_action",
                "complications", "midpoint", "complications",
                "darkest_moment" >>
             \o [k \in 1..(beat_n - 10) |->
                    IF k % 2 = 1 THEN "rising_action" ELSE "complications"]
             \o << "climax_buildup", "climax", "resolution" >>
        /\ beat_n = 12 =>
             SubSeq(beat_result, 8, 9) = <<"rising_action", "complications">>

C4_Witness ==
    /\ beat_pc = "done"
    /\ beat_n = 12
    /\ Len(beat_result) = 12
    /\ beat_result[8] = "rising_action"
    /\ beat_result[9] = "complications"

\* C5: for 3 <= N <= 10, position 0 takes canonical index 0, position N-1
\* takes index 9, and every position i in 1..N-2 takes the integer nearest to
\* i*9/(N-1), an exact half going to the even integer; so the middle position
\* of N = 3, 5, 7, 9 (the value 4.5) takes index 4, midpoint.
C5_BeatSpacing ==
    (beat_pc = "done" /\ beat_n >= 3 /\ beat_n <= 10) =>
        /\ Len(indices) = beat_n
        /\ indices[1] = 0
        /\ indices[beat_n] = 9
        /\ \A i \in 1..(beat_n - 2) :
             LET k == indices[i + 1]
                 d == 2 * (i * 9 - k * (beat_n - 1))
                 dist == IF d < 0 THEN -d ELSE d
             IN  /\ dist <= beat_n - 1
                 /\ dist = beat_n - 1 => k % 2 = 0
        /\ \A p \in 1..beat_n : beat_result[p] = _BEAT_SEQUENCE[indices[p] + 1]
        /\ beat_n % 2 = 1 =>
             /\ indices[(beat_n + 1) \div 2] = 4
             /\ beat_result[(beat_n + 1) \div 2] = "midpoint"

C5_Witness ==
    /\ beat_pc = "done"
    /\ beat_n = 7
    /\ indices = <<0, 2, 3, 4, 6, 8, 9>>

-----------------------------------------------------------------------------
(* Properties of a generation run, checked under Spec.                     *)

\* C6: _assign_beats(1) returns exactly [full_arc] and full_arc is in the
\* list returned for no other N; so once a run with num_chapters = 1 has
\* built its outlines there is a single outline and its beat is full_arc,
\* and no run with another num_chapters has an outline with that beat.
C6_FullArcOnlyForOne ==
    pc \in {"phase6", "chapters", "done"} =>
        /\ pc = "phase6" =>
             /\ AssignBeats(1) = <<"full_arc">>
             /\ \A n \in 0..MaxChapters :
                  (\E k \in 1..Len(AssignBeats(n)) :
                      AssignBeats(n)[k] = "full_arc") => n = 1
        /\ num_chapters = 1 =>
             (Len(outlines) = 1 /\ outlines[1].beat = "full_arc")
        /\ \A k \in 1..Len(outlines) :
             outlines[k].beat = "full_arc" => num_chapters = 1

C6_Witness ==
    /\ pc = "done"
    /\ num_chapters = 1
    /\ Len(outlines) = 1
    /\ outlines[1].beat = "full_arc"
    /\ Len(chapter_texts) = 1

-----------------------------------------------------------------------------
(* Properties of _pad_chapter, checked under PadSpec and PadFairSpec.      *)

\* C7: whatever the text and the target W given to _pad_chapter, the text
\* it returns has at least W words when split at whitespace.
C7_PadReachesTarget ==
    pad_pc = "done" => WordCount(pad.text) >= pad.target_words

C7_Witness ==
    /\ pad_pc = "done"
    /\ pad.target_words = MaxTarget
    /\ Len(pad.extra_paragraphs) > PoolSize
    /\ WordCount(pad.text) >= MaxTarget

\* the multiset of paragraphs of a list
ParagraphBag(paras) ==
    [q \in {paras[k] : k \in 1..Len(paras)} |->
        Cardinality({k \in 1..Len(paras) : paras[k] = q})]

\* C8: the padding loop ends for every target W, also when the pool of 15
\* paragraphs runs out once or several times: an iterator that has run out
\* is replaced by one over a freshly shuffled copy of the whole pool, the
\* iteration after that appends a paragraph, and every paragraph appended
\* is non-empty and raises the running word count.
C8_PadTerminates ==
    /\ <>(pad_pc = "done")
    /\ [][PadReshuffle =>
            /\ pad'.pool_iter = 0
            /\ ParagraphBag(pad'.shuffled) = ParagraphBag(pad.pool)
            /\ Len(pad'.shuffled) = PoolSize
            /\ pad'.extra_paragraphs = pad.extra_paragraphs
            /\ PadBelowTarget(pad') /\ PadHasNext(pad')]_vars
    /\ [][PadAppend =>
            /\ Len(pad'.extra_paragraphs) = Len(pad.extra_paragraphs) + 1
            /\ WordCount(pad'.extra_paragraphs[Len(pad'.extra_paragraphs)]) >= 1
            /\ SumWords(pad'.extra_paragraphs) > SumWords(pad.extra_paragraphs)]_vars

C8_Witness ==
    /\ pad_pc = "done"
    /\ Len(pad.extra_paragraphs) > 2 * PoolSize

-----------------------------------------------------------------------------
(* Properties of two generation runs, checked under Spec.                  *)

\* C9: when two generators are constructed with the same idea, genre,
\* research, num_chapters and the same explicit seed, and generate_all is
\* called on each without a chapter_writer, the second run returns the same
\* novel, world, characters, plot_outline and chapter_outlines as the first.
C9_SeededRunsAgree ==
    ( /\ pc = "done"
      /\ prev # <<>>
      /\ seed # <<>>
      /\ prev[1].num_chapters = num_chapters
      /\ prev[1].chapter_writer = "none"
      /\ chapter_writer = "none" ) =>
        /\ returned[1].novel = prev[1].returned[1].novel
        /\ returned[1].world = prev[1].returned[1].world
        /\ returned[1].characters = prev[1].returned[1].characters
        /\ returned[1].plot_outline = prev[1].returned[1].plot_outline
        /\ returned[1].chapter_outlines = prev[1].returned[1].chapter_outlines
        /\ chapter_texts = prev[1].chapter_texts

C9_Witness ==
    /\ pc = "done"
    /\ prev # <<>>
    /\ seed # <<>>
    /\ hash_salt = 1
    /\ num_chapters = MaxGenChapters
    /\ prev[1].num_chapters = num_chapters
    /\ prev[1].chapter_writer = "none"
    /\ chapter_writer = "none"
    /\ returned = prev[1].returned

\* the number of characters of a roster with a role
RoleCount(chars, role) ==
    Cardinality({k \in 1..Len(chars) : chars[k].role = role})

\* C10: a roster built by build_characters has exactly one protagonist, who
\* is first, exactly one antagonist, who is second, and 2 or 3 supporting
\* characters, 4 or 5 characters in all.
C10_RosterShape ==
    characters # <<>> =>
        /\ RoleCount(characters, "protagonist") = 1
        /\ RoleCount(characters, "antagonist") = 1
        /\ RoleCount(characters, "supporting") \in {2, 3}
        /\ Len(characters) \in {4, 5}
        /\ Len(characters) = 2 + RoleCount(characters, "supporting")
        /\ characters[1].role = "protagonist"
        /\ characters[2].role = "antagonist"

C10_Witness ==
    /\ pc = "phase3"
    /\ Len(characters) = 5
    /\ RoleCount(characters, "supporting") = 3

-----------------------------------------------------------------------------
(* Properties of build_characters on its own, checked under RosterSpec.    *)

\* C11: within one roster a character gets a full name an earlier character
\* already has only if all 30 draws of the collision-avoidance loop gave
\* names already in use; then one further draw is made and taken as it is,
\* duplicate or not, and the roster is completed as usual.
C11_DuplicateOnlyAfterThirty ==
    /\ roster_pc \notin {"idle", "start"} =>
         /\ Len(roster.naming) = Len(roster.chars)
         /\ \A k \in 1..Len(roster.naming) :
              LET n == roster.naming[k]
              IN  /\ roster.chars[k].name = n.name
                  /\ n.before = {roster.chars[j].name : j \in 1..(k - 1)}
                  /\ n.name \in n.before => n.after_loop
                  /\ n.after_loop =>
                       /\ Len(n.drawn) = 30
                       /\ \A d \in 1..30 : n.drawn[d] \in n.before
                  /\ ~n.after_loop =>
                       /\ Len(n.drawn) \in 1..30
                       /\ n.name = n.drawn[Len(n.drawn)]
                       /\ n.name \notin n.before
                       /\ \A d \in 1..(Len(n.drawn) - 1) : n.drawn[d] \in n.before
    /\ roster_pc = "done" =>
         /\ Len(roster.chars) \in {4, 5}
         /\ roster.chars = build_characters(roster.rng0, roster.bank).val

C11_Witness ==
    /\ roster_pc = "done"
    /\ \E k \in 1..Len(roster.naming) :
         /\ roster.naming[k].after_loop
         /\ roster.naming[k].name \in roster.naming[k].before
    /\ \E k \in 1..Len(roster.naming) :
         /\ ~roster.naming[k].after_loop
         /\ Len(roster.naming[k].drawn) > 1

-----------------------------------------------------------------------------
\* the elements of a list
Range(lst) == {lst[k] : k \in 1..Len(lst)}

\* C12: once the world is built it has exactly 6 locations, no two of them
\* the same, and each is an entry of the location pool of the genre table
\* the generator resolved: the genre's own table, or General's when the
\* genre has none.
C12_SixDistinctLocations ==
    world # <<>> =>
        LET locs == world[1].locations
        IN  /\ Len(locs) = 6
            /\ \A a, b \in 1..6 : a # b => locs[a] # locs[b]
            /\ Range(locs) \subseteq
                   Range((IF genre \in {"Fantasy", "Horror"}
                          THEN _GENRE_DATA[genre]
                          ELSE _GENRE_DATA["General"]).locations)

C12_Witness ==
    /\ pc = "done"
    /\ genre = "Unknown Genre XYZ"
    /\ world # <<>>
    /\ Len(world[1].locations) = 6
    /\ world[1].locations[1] # "General_location1"

-----------------------------------------------------------------------------
\* every character's first and last name are entries of the bank
NamedFrom(chars, bank) ==
    \A k \in 1..Len(chars) :
        /\ chars[k].name[1] \in Range(bank.first)
        /\ chars[k].name[3] \in Range(bank.last)

\* C13: a genre without a table is no error: the run goes through its phases
\* with General's genre data (the world's time_period is General's) and with
\* the default name bank.  The two lookups fall back separately: Horror has
\* genre data but no name bank, and runs with its own time_period and
\* locations and with names from the default bank; Fantasy has both.
C13_IndependentFallbacks ==
    /\ pc \notin {"idle", "phase2"} => (characters # <<>> /\ world # <<>>)
    /\ world # <<>> =>
          /\ genre = "Unknown Genre XYZ" =>
                /\ world[1].time_period = _GENRE_DATA["General"].time_period
                /\ world[1].themes = _GENRE_DATA["General"].themes
                /\ NamedFrom(characters, _NAME_BANKS["default"])
          /\ genre = "Horror" =>
                /\ world[1].time_period = _GENRE_DATA["Horror"].time_period
                /\ Range(world[1].locations) \subseteq Range(_GENRE_DATA["Horror"].locations)
                /\ NamedFrom(characters, _NAME_BANKS["default"])
          /\ genre = "Fantasy" =>
                /\ world[1].time_period = _GENRE_DATA["Fantasy"].time_period
                /\ NamedFrom(characters, _NAME_BANKS["Fantasy"])

C13_Witness ==
    /\ pc = "done"
    /\ genre = "Horror"
    /\ returned # <<>>
    /\ world[1].time_period = "the present, in a place that holds something old and unresolved"
    /\ characters[1].name[1] \in Range(_NAME_BANKS["default"].first)
    /\ prev # <<>>
    /\ prev[1].genre = "Horror"

-----------------------------------------------------------------------------
\* C14: the mapping generate_all returns has all six fields, novel, world,
\* characters, plot_outline, chapter_outlines and research, and its research
\* is the research text the constructor was given.
C14_ResultHasSixFields ==
    (pc = "done" /\ returned # <<>>) =>
        /\ DOMAIN returned[1] = {"novel", "world", "characters", "plot_outline",
                                 "chapter_outlines", "research"}
        /\ returned[1].research = research

-----------------------------------------------------------------------------
\* the messages of one whole run, in pipeline order
ExpectedStatus ==
    <<"Phase 2/7", "Phase 3/7", "Phase 4/7", "Phase 5/7", "Phase 6/7">>
      \o (IF chapter_writer = "none"
          THEN [i \in 1..num_chapters |->
                  "Writing chapter " \o ToString(i) \o " of " \o ToString(num_chapters)]
          ELSE <<>>)
      \o <<"Phase 7/7">>

\* the messages due once generate_all has come to a position
StatusDue ==
    CASE pc \in {"idle", "phase2"} -> 0
      [] pc = "phase3" -> 1
      [] pc = "phase4" -> 2
      [] pc = "phase5" -> 3
      [] pc = "phase6" -> 4
      [] pc = "chapters" -> 5 + (IF chapter_writer = "none" THEN Len(chapter_texts) ELSE 0)
      [] pc = "done" -> Len(ExpectedStatus)

\* C15: the callback receives the messages of a run in pipeline order, each
\* as its step is taken: Phase 2, 3, 4, 5, 6, then "Writing chapter i of N"
\* for i = 1..N ascending when there is no chapter_writer, then Phase 7.  It
\* receives a message only while generate_all is running, never once it has
\* returned; without a callback there is no invocation at all.
C15_StatusInPipelineOrder ==
    /\ [](/\ status_callback => status_log = SubSeq(ExpectedStatus, 1, StatusDue)
          /\ ~status_callback => status_log = <<>>)
    /\ [][status_log' # status_log =>
             \/ /\ pc \notin {"idle", "done"}
                /\ Len(status_log') = Len(status_log) + 1
                /\ SubSeq(status_log', 1, Len(status_log)) = status_log
             \/ /\ pc = "done" /\ pc' = "phase2" /\ status_log' = <<>>]_vars

C15_Witness ==
    /\ pc = "done"
    /\ status_callback
    /\ chapter_writer = "none"
    /\ num_chapters = 3
    /\ status_log = <<"Phase 2/7", "Phase 3/7", "Phase 4/7", "Phase 5/7", "Phase 6/7",
                      "Writing chapter 1 of 3", "Writing chapter 2 of 3",
                      "Writing chapter 3 of 3", "Phase 7/7">>

-----------------------------------------------------------------------------
\* C16: with a chapter_writer, the writer is called once per outline, in
\* ascending order, with the zero-based index, the outline, the characters,
\* the world and the plot, and what it returns is the chapter's text;
\* write_chapter and _pad_chapter are not called, so the chapter loop makes
\* no draw.  The characters, world, plot and outlines are those of a run
\* with the same inputs and seed and no chapter_writer.
C16_ExternalWriterSubstitutes ==
    /\ [](/\ chapter_writer = "none" => writer_log = <<>>
          /\ chapter_writer # "none" =>
                /\ Len(writer_log) = Len(chapter_texts)
                /\ \A k \in 1..Len(writer_log) :
                      /\ writer_log[k] =
                            <<k - 1, outlines[k], characters, world[1], plot[1]>>
                      /\ chapter_texts[k] =
                            WriterReturn(chapter_writer, k - 1, outlines[k])
                /\ pc = "done" => Len(writer_log) = Len(outlines)
          /\ ( /\ pc \in {"chapters", "done"}
               /\ prev # <<>>
               /\ seed # <<>>
               /\ prev[1].num_chapters = num_chapters
               /\ prev[1].chapter_writer # chapter_writer ) =>
                /\ characters = prev[1].characters
                /\ world = prev[1].world
                /\ plot = prev[1].plot
                /\ outlines = prev[1].outlines)
    /\ [][(pc = "chapters" /\ chapter_writer # "none") => rng' = rng]_vars

C16_Witness ==
    /\ pc = "done"
    /\ chapter_writer = "ollama"
    /\ num_chapters = 3
    /\ Len(writer_log) = 3
    /\ writer_log[3][1] = 2
    /\ chapter_texts[3] = WriterReturn("ollama", 2, outlines[3])
    /\ seed # <<>>
    /\ prev # <<>>
    /\ prev[1].chapter_writer = "none"
    /\ prev[1].num_chapters = 3
    /\ prev[1].chapter_texts # chapter_texts

-----------------------------------------------------------------------------
\* C17: build_chapter_outlines returns num_chapters outlines; the k-th has
\* number k and the k-th beat of _assign_beats(num_chapters), its location
\* is one of the world's locations, and its other_char is the name of a
\* character of the roster whose role is not protagonist.
C17_OutlineShape ==
    pc \in {"phase6", "chapters", "done"} =>
        /\ num_chapters >= 1
        /\ Len(outlines) = num_chapters
        /\ \A k \in 1..Len(outlines) :
              /\ outlines[k].number = k
              /\ outlines[k].beat = AssignBeats(num_chapters)[k]
              /\ outlines[k].location \in Range(world[1].locations)
              /\ \E c \in 1..Len(characters) :
                    /\ characters[c].name = outlines[k].other_char
                    /\ characters[c].role # "protagonist"

C17_Witness ==
    /\ pc = "phase6"
    /\ num_chapters = 3
    /\ Len(outlines) = 3
    /\ outlines[3].number = 3
    /\ outlines[1].other_char # outlines[2].other_char
    /\ outlines[1].location # outlines[3].location

-----------------------------------------------------------------------------
\* C18: whatever the research text and the idea, _extract_from_research
\* returns a mapping of themes, settings, keywords and time_hints with at
\* most 5 themes, 5 settings, 10 keywords and 3 time_hints.
C18_ResultWithinCaps ==
    /\ extract_pc = "done" <=> (extract # <<>> /\ extract.result # <<>>)
    /\ extract_pc = "done" =>
          /\ DOMAIN extract.result[1] = {"themes", "settings", "keywords", "time_hints"}
          /\ Len(extract.result[1].themes) <= 5
          /\ Len(extract.result[1].settings) <= 5
          /\ Len(extract.result[1].keywords) <= 10
          /\ Len(extract.result[1].time_hints) <= 3

C18_Witness ==
    /\ extract_pc = "done"
    /\ Len(extract.keywords) = 11
    /\ Len(extract.result[1].keywords) = 10
    /\ extract.idea = <<>>

\* the first entries of a list, at most n of them
IsPrefixUpTo(res, lst, n) ==
    /\ Len(res) = (IF Len(lst) < n THEN Len(lst) ELSE n)
    /\ \A k \in 1..Len(res) : res[k] = lst[k]

\* C19: with no line in the themes bucket the returned themes are identity,
\* courage, sacrifice; with no line in the keywords bucket the returned
\* keywords are the first words of the idea, split at non-word characters,
\* that are longer than 4 characters, at most 5 of them; a bucket that has
\* a line is returned without any default.
C19_DefaultsOnlyWhenEmpty ==
    extract_pc = "done" =>
        LET res == extract.result[1]
        IN  /\ extract.themes = <<>> =>
                  res.themes = <<"identity", "courage", "sacrifice">>
            /\ extract.themes # <<>> => IsPrefixUpTo(res.themes, extract.themes, 5)
            /\ extract.keywords = <<>> =>
                  res.keywords =
                     (IF "storm" \in Range(extract.idea)
                      THEN <<"storm", "keeper", "lantern", "harbour", "island">>
                      ELSE <<>>)
            /\ extract.keywords # <<>> =>
                  IsPrefixUpTo(res.keywords, extract.keywords, 10)

C19_Witness ==
    /\ extract_pc = "done"
    /\ extract.read > 0
    /\ extract.themes = <<>>
    /\ extract.keywords = <<>>
    /\ extract.result[1].themes = <<"identity", "courage", "sacrifice">>
    /\ Len(extract.result[1].keywords) = 5

\* a line of trimmed length 15 to 200 that contains a theme keyword
QualifiesAsTheme(line) ==
    /\ line.len >= 15
    /\ line.len <= 200
    /\ \E w \in line.marks :
          LowerWord(w) \in {"theme", "motif", "symbol", "explore", "central", "universal"}

\* the line without lead and trail, cut to 100 characters
ThemeEntry(line) ==
    [stem |-> line.stem, len |-> IF line.len < 100 THEN line.len ELSE 100]

\* C20 as stated: every research line of trimmed length 15 to 200 that
\* contains a theme keyword is, cut to 100 characters, in the returned
\* themes.
C20_EveryThemeLineReturned ==
    extract_pc = "done" =>
        \A line \in extract.seen :
            QualifiesAsTheme(line) =>
                ThemeEntry(line) \in Range(extract.result[1].themes)

\* C20, amended: every research line of trimmed length 15 to 200 that
\* contains a theme keyword is collected, cut to 100 characters, in the
\* themes bucket, and it is in the returned themes when it is among the
\* first five entries collected: the returned list is the first five.
C20_ThemeLineReturnedWithinCap ==
    /\ extract_pc \in {"scan", "done"} =>
          \A line \in extract.seen :
              QualifiesAsTheme(line) => ThemeEntry(line) \in Range(extract.themes)
    /\ extract_pc = "done" =>
          \A k \in 1..Len(extract.themes) :
              k <= 5 => extract.result[1].themes[k] = extract.themes[k]

C20_Witness ==
    /\ extract_pc = "done"
    /\ Len(extract.themes) > 5
    /\ LineOf("mixed", 1) \in extract.seen
    /\ LineOf("long theme", 1) \in extract.seen
    /\ \E line \in extract.seen :
          /\ QualifiesAsTheme(line)
          /\ ThemeEntry(line) \in Range(extract.result[1].themes)
    /\ \E line \in extract.seen :
          /\ QualifiesAsTheme(line)
          /\ ThemeEntry(line) \notin Range(extract.result[1].themes)

-----------------------------------------------------------------------------
\* text.split("\n"): the lines of a text
RECURSIVE LinesOf(_, _, _)
LinesOf(text, k, line) ==
    IF k > Len(text) THEN <<line>>
    ELSE IF text[k] = "nl" THEN <<line>> \o LinesOf(text, k + 1, <<>>)
    ELSE LinesOf(text, k + 1, Append(line, text[k]))

\* C21: in the document _compile returns for the chapters c_1 .. c_n, the
\* table of contents has n chapter entries and then the Epilogue entry;
\* entry i is the first text line of c_i, which for a chapter written by
\* write_chapter is "Chapter i: <title of outline i>"; the chapters stand in
\* the document in the order c_1 .. c_n, after the table of contents and
\* before the epilogue.
C21_ContentsAndChapterOrder ==
    pc = "done" =>
        LET doc == returned[1].novel
            n == Len(chapter_texts)
            toc == LinesOf(doc[13], 1, <<>>)
        IN  /\ Len(doc) = n + 21
            /\ Len(toc) = n + 3
            /\ toc[1] = <<"TABLE OF CONTENTS">>
            /\ toc[n + 3] = <<"sp", "sp", "Epilogue">>
            /\ \A i \in 1..n :
                  /\ toc[i + 2] = <<"sp", "sp", "Chapter", "sp",
                                    ToString(i) \o ":", "sp", outlines[i].title>>
                  /\ doc[16 + i] = chapter_texts[i]
            /\ Head(doc[n + 19]) = "EPILOGUE"

C21_Witness ==
    /\ pc = "done"
    /\ Len(chapter_texts) = 3
    /\ Len(returned[1].novel) = 24
    /\ chapter_writer = "ollama"
    /\ Head(chapter_texts[2]) = "nl"
    /\ prev # <<>>
    /\ prev[1].chapter_writer = "none"
    /\ Len(prev[1].returned[1].novel) > 21

-----------------------------------------------------------------------------
\* whether a text has the tokens of seq one after another
Mentions(text, seq) ==
    \E k \in 1..(Len(text) - Len(seq) + 1) : SubSeq(text, k, k + Len(seq) - 1) = seq

\* C22: for a World with fewer than two themes _compile does not raise and
\* returns a document whose epilogue has the literal fallback in place of
\* the missing theme; with two or more themes the epilogue names the first
\* two themes.
C22_EpilogueForAnyThemes ==
    compile_pc # "start" =>
        /\ compile_pc = "done"
        /\ LET doc == compile_st.doc[1]
               epilogue == doc[Len(doc) - 2]
               themes == compile_st.themes
           IN  /\ Head(epilogue) = "EPILOGUE"
               /\ Len(themes) < 2 => Mentions(epilogue, <<"and", "what it costs">>)
               /\ Len(themes) >= 1 => Mentions(epilogue, <<"The questions of", themes[1]>>)
               /\ Len(themes) >= 2 => Mentions(epilogue, <<themes[1], "and", themes[2]>>)

-----------------------------------------------------------------------------
\* C23: detect_chapters returns its (position, heading) pairs in ascending
\* order of position, no position twice, whichever patterns found them, and
\* returns the empty list for a text without a heading.
C23_SortedDistinctPositions ==
    nav_pc = "done" =>
        LET res == nav.returned[1]
        IN  /\ \A a, b \in 1..Len(res) : a < b => res[a][1] < res[b][1]
            /\ (\A i \in 1..Len(nav.text) : nav.text[i].pat = 0) => res = <<>>

C23_Witness ==
    /\ nav_pc = "done"
    /\ Len(nav.results) = 2
    /\ nav.results[1][1] > nav.results[2][1]
    /\ nav.returned[1] = <<nav.results[2], nav.results[1]>>
    /\ nav.returned[1][1][1] = 0
    /\ nav.text[1].blank

-----------------------------------------------------------------------------
\* no entry of a list stands in it twice
NoRepeat(lst) == \A a, b \in 1..Len(lst) : a # b => lst[a] # lst[b]

\* C24: in each bucket of _extract_from_research, themes, settings,
\* time_hints and keywords, a line equal to one already added is not added
\* again, so no returned list has the same string twice.
C24_NoDuplicateInAnyBucket ==
    /\ extract_pc \in {"scan", "done"} =>
          /\ NoRepeat(extract.themes)
          /\ NoRepeat(extract.settings)
          /\ NoRepeat(extract.time_hints)
          /\ NoRepeat(extract.keywords)
    /\ extract_pc = "done" =>
          /\ NoRepeat(extract.result[1].themes)
          /\ NoRepeat(extract.result[1].settings)
          /\ NoRepeat(extract.result[1].time_hints)
          /\ NoRepeat(extract.result[1].keywords)

-----------------------------------------------------------------------------
\* the lowercased line contains one of the words
LoweredHas(line, words) == \E w \in line.marks : LowerWord(w) \in words

\* the bucket has an entry cut from the line
HoldsLine(bucket, line) == \E k \in 1..Len(bucket) : bucket[k].stem = line.stem

\* the bucket a line belongs in, by the fixed priority
BucketOf(line) ==
    IF LoweredHas(line, {"theme", "motif", "symbol", "explore", "central", "universal"})
    THEN "themes"
    ELSE IF LoweredHas(line, {"setting", "location", "place", "geography",
                              "landscape", "city", "town", "world", "environment"})
    THEN "settings"
    ELSE IF LoweredHas(line, {"century", "era", "period", "age", "decade",
                              "epoch", "year"})
    THEN "time_hints"
    ELSE "keywords"

\* C25: a line whose trimmed length is below 15 or above 200 goes into no
\* bucket; every other line goes into exactly one: themes if the lowercased
\* line has a theme keyword, else settings if it has a setting keyword, else
\* time_hints if it has a time keyword, else keywords.
C25_OneBucketByPriority ==
    extract_pc \in {"scan", "done"} =>
        \A line \in extract.seen :
            LET buckets == [ themes |-> extract.themes, settings |-> extract.settings,
                             time_hints |-> extract.time_hints,
                             keywords |-> extract.keywords ]
            IN  IF line.len < 15 \/ line.len > 200
                THEN \A b \in DOMAIN buckets : ~HoldsLine(buckets[b], line)
                ELSE \A b \in DOMAIN buckets :
                        HoldsLine(buckets[b], line) <=> b = BucketOf(line)

C25_Witness ==
    /\ extract_pc = "done"
    /\ extract.seen = {LineOf("mixed", 1), LineOf("setting", 1), LineOf("overlong", 1)}
    /\ Len(extract.themes) = 1
    /\ extract.themes[1].stem = <<"mixed", 1>>
    /\ Len(extract.settings) = 1
    /\ extract.time_hints = <<>>
    /\ extract.keywords = <<>>

-----------------------------------------------------------------------------
\* C26: every beat label _assign_beats returns for a chapter count N >= 1
\* is a key of the title and summary dictionaries of build_chapter_outlines
\* and of the openings dictionary of write_chapter, so the lookups made for
\* it give the beat's own title, summary and opening, never the generic
\* "Chapter {n}" title, the location-only summary or the default opening.
C26_BeatLabelsAreKeys ==
    (beat_pc = "done" /\ beat_n >= 1) =>
        \A k \in 1..Len(beat_result) :
            LET beat == beat_result[k]
            IN  /\ beat \in BeatKeys
                /\ beat \in OpeningKeys
                /\ BeatTitle(beat, k - 1) = "title_" \o beat
                /\ BeatSummary(beat, "Fantasy_location1") = "summary_" \o beat
                /\ OpeningTemplate(beat) = "opening_" \o beat

C26_Witness ==
    /\ beat_pc = "done"
    /\ beat_n = 13
    /\ {beat_result[k] : k \in 1..Len(beat_result)} =
          { "exposition", "inciting_incident", "rising_action", "complications",
            "midpoint", "darkest_moment", "climax_buildup", "climax", "resolution" }

-----------------------------------------------------------------------------
\* the word count of the longest paragraph of a pool
LongestParagraph(poolv) ==
    CHOOSE n \in {WordCount(poolv[k]) : k \in 1..Len(poolv)} :
        \A k \in 1..Len(poolv) : WordCount(poolv[k]) <= n

\* C27: when the text given to _pad_chapter has fewer than W words, the
\* returned text has fewer than W plus the longest pool paragraph's words;
\* when it has W words or more, it is returned as it is, nothing appended.
C27_PadOvershootBounded ==
    pad_pc = "done" =>
        IF WordCount(pad.given) < pad.target_words
        THEN WordCount(pad.text) < pad.target_words + LongestParagraph(pad.pool)
        ELSE pad.text = pad.given /\ pad.extra_paragraphs = <<>>

C27_Witness ==
    /\ pad_pc = "done"
    /\ WordCount(pad.given) < pad.target_words
    /\ WordCount(pad.text) = pad.target_words + LongestParagraph(pad.pool) - 1
    /\ Len(pad.extra_paragraphs) > 2

-----------------------------------------------------------------------------
\* the generator after the first k chapters of a run without chapter_writer:
\* each chapter's write_chapter draws, then its _pad_chapter draws
RECURSIVE ChapterStream(_, _)
ChapterStream(r, k) ==
    IF k = 0 THEN r
    ELSE Bind(ChapterStream(r, k - 1), LAMBDA before :
         Bind(write_chapter(before, outlines[k], characters, world[1],
                            GenreData(genre)), LAMBDA written :
             _pad_chapter(written.rng, written.val, outlines[k], characters,
                          world[1], GenreData(genre), PipelineTarget).rng))

\* the one stream of a run up to the outlines: characters, world, plot,
\* outlines, each from where the one before left the generator
StreamToOutlines ==
    Bind(build_characters(InitialRng(seed, idea, genre, hash_salt),
                          NameBank(genre)), LAMBDA cs :
    Bind(build_world(cs.rng, GenreData(genre), idea, genre), LAMBDA w :
    Bind(build_plot(w.rng, cs.val, w.val), LAMBDA pl :
    Bind(build_chapter_outlines(pl.rng, cs.val, w.val, num_chapters), LAMBDA os :
        [ characters |-> cs.val, world |-> w.val, plot |-> pl.val,
          outlines |-> os.val, rng |-> os.rng ]))))

\* C28: the draws of a run come from the generator's one stream in the
\* order characters, world, plot, outlines, then chapter by chapter the
\* write_chapter draws and the _pad_chapter draws.  So two runs with the
\* same idea, genre, research and seed have the same characters, world and
\* plot whatever their chapter counts; their outlines and chapters may
\* differ.
C28_OneStreamFixedOrder ==
    /\ pc = "done" =>
          Bind(StreamToOutlines, LAMBDA st :
              /\ characters = st.characters
              /\ world = <<st.world>>
              /\ plot = <<st.plot>>
              /\ outlines = st.outlines
              /\ rng = (IF chapter_writer = "none"
                        THEN ChapterStream(st.rng, Len(chapter_texts))
                        ELSE st.rng))
    /\ (pc \in {"phase5", "phase6", "chapters", "done"} /\ prev # <<>> /\ seed # <<>>) =>
          /\ characters = prev[1].characters
          /\ world = prev[1].world
          /\ plot = prev[1].plot

C28_Witness ==
    /\ pc = "done"
    /\ prev # <<>>
    /\ seed # <<>>
    /\ chapter_writer = "none"
    /\ prev[1].chapter_writer = "none"
    /\ num_chapters = 3
    /\ prev[1].num_chapters = 2
    /\ outlines[1] = prev[1].outlines[1]
    /\ outlines[2] # prev[1].outlines[2]
    /\ chapter_texts[1] # prev[1].chapter_texts[1]
    /\ plot = prev[1].plot

\* C29: for 3 <= N <= 10 the canonical-sequence indices chosen by
\* _assign_beats(N) are strictly increasing, so the returned labels are the
\* canonical sequence's entries at increasing positions: a subsequence of it,
\* in order.  While the loop runs the indices collected so far already
\* increase and stay below the last index that is appended at the end.
C29_IndicesStrictlyIncreasing ==
    /\ (beat_pc = "select" /\ beat_n >= 3 /\ beat_n <= 10) =>
          /\ \A p \in 1..(Len(indices) - 1) : indices[p] < indices[p + 1]
          /\ indices[Len(indices)] < LastIndex
    /\ (beat_pc = "done" /\ beat_n >= 3 /\ beat_n <= 10) =>
          /\ Len(beat_result) = beat_n
          /\ Len(indices) = beat_n
          /\ \A p \in 1..(beat_n - 1) : indices[p] < indices[p + 1]
          /\ \A p \in 1..beat_n :
                /\ indices[p] \in 0..(Len(_BEAT_SEQUENCE) - 1)
                /\ beat_result[p] = _BEAT_SEQUENCE[indices[p] + 1]

C29_Witness ==
    /\ beat_pc = "done"
    /\ beat_n = 10
    /\ indices = <<0, 1, 2, 3, 4, 5, 6, 7, 8, 9>>
    /\ beat_result = _BEAT_SEQUENCE

\* C30: _generate calls the model at most 3 times per prompt; it returns the
\* text of the first successful call; a call is followed by another one only
\* when it failed with a transient network or rate-limit error, after a pause
\* of 1 s and then 2 s; an auth or quota error is raised at once, on the call
\* where it first occurs; the error of the third call is raised whatever its
\* kind.
C30_RetryPolicy ==
    api_pc \in {"call", "sleep", "returned", "raised"} =>
        /\ Len(api.calls) <= 3
        /\ api_pc = "returned" =>
             /\ api.calls[Len(api.calls)].ok
             /\ api.result = <<api.calls[Len(api.calls)].text>>
             /\ \A k \in 1..(Len(api.calls) - 1) : ~api.calls[k].ok
        /\ \A k \in 1..Len(api.calls) :
             (k < Len(api.calls) \/ api_pc \in {"sleep", "call"}) =>
                 /\ ~api.calls[k].ok
                 /\ api.calls[k].exc.kind \in {"network", "rate_limit"}
        /\ api.pauses \o api.sleeping = SubSeq(<<1, 2>>, 1, Len(api.pauses \o api.sleeping))
        /\ \A k \in 1..Len(api.calls) :
             (~api.calls[k].ok /\ api.calls[k].exc.kind \in {"auth", "quota"}) =>
                 /\ k = Len(api.calls)
                 /\ api_pc = "raised"
                 /\ api.raised = <<api.calls[k].exc>>
        /\ (Len(api.calls) = 3 /\ ~api.calls[3].ok) =>
             /\ api_pc = "raised"
             /\ api.raised = <<api.calls[3].exc>>

====
